---- MODULE Spec2Model ----
(***************************************************************************)
(* Autonomy Explorer data pipeline: the scoring engine of                  *)
(* data/scripts/05_compute_scores.py (compute_scores and the functions it  *)
(* calls), with the configuration of data/scripts/config.py.               *)
(*                                                                         *)
(* Numbers.  Python floats are modelled as exact rationals <<n, d>> in     *)
(* lowest terms with d > 0, so that "/", "*", "-", min, statistics.mean    *)
(* and comparisons are the real-number operations; round(x, 1) is          *)
(* round-half-to-even on the exact value.  Durations in seconds are the    *)
(* rationals <<s, 1>>.                                                     *)
(*                                                                         *)
(* Python None has one encoding per sort, because TLC only compares values *)
(* of the same sort: None for numbers, NoneStr for strings, NoneRec for    *)
(* dict-valued records.  A Python dict is a function whose DOMAIN is its   *)
(* key set; the empty dict {} is the empty function.                       *)
(***************************************************************************)
EXTENDS Integers, Sequences, FiniteSets, TLC

None == <<"None">>
NoneStr == "None"
NoneRec == [none |-> TRUE]
EmptyDict == << >>

(* dict.get(key) and dict.get(key, default) *)
Get(dict, key) == IF key \in DOMAIN dict THEN dict[key] ELSE None
GetOr(dict, key, default) == IF key \in DOMAIN dict THEN dict[key] ELSE default

(***************************************************************************)
(* Rational arithmetic (Python float operators on the exact values).       *)
(***************************************************************************)
RECURSIVE GCD(_, _)
GCD(a, b) == IF b = 0 THEN a ELSE GCD(b, a % b)

Abs(x) == IF x < 0 THEN -x ELSE x

Rat(n, d) ==
    LET s == IF d < 0 THEN -1 ELSE 1
        g == GCD(Abs(n), Abs(d))
    IN  <<(s * n) \div g, (s * d) \div g>>

Zero == <<0, 1>>
Hundred == <<100, 1>>
Sixty == <<60, 1>>

(* sums over the least common denominator and products after cancelling
   across, so that the intermediate integers stay small *)
RAdd(a, b) ==
    LET l == (a[2] \div GCD(a[2], b[2])) * b[2]
    IN  Rat(a[1] * (l \div a[2]) + b[1] * (l \div b[2]), l)
RSub(a, b) == RAdd(a, <<-b[1], b[2]>>)
RMul(a, b) ==
    LET g1 == GCD(Abs(a[1]), b[2])
        g2 == GCD(Abs(b[1]), a[2])
    IN  Rat((a[1] \div g1) * (b[1] \div g2), (a[2] \div g2) * (b[2] \div g1))
RDiv(a, b) == RMul(a, IF b[1] < 0 THEN <<-b[2], -b[1]>> ELSE <<b[2], b[1]>>)
RLt(a, b) == a[1] * b[2] < b[1] * a[2]
RLe(a, b) == a[1] * b[2] <= b[1] * a[2]
RMin2(a, b) == IF RLe(a, b) THEN a ELSE b

(* Python truthiness of an optional number: None and 0 are falsy *)
Truthy(x) == x # None /\ x # Zero

(* round(x, 1): the nearest multiple of 1/10, ties to the even one *)
Round1(x) ==
    LET m == 10 * x[1]
        f == m \div x[2]
        r == m - f * x[2]
        k == IF 2 * r < x[2] THEN f
             ELSE IF 2 * r > x[2] THEN f + 1
             ELSE IF f % 2 = 0 THEN f ELSE f + 1
    IN  Rat(k, 10)

RECURSIVE RSum(_)
RSum(s) == IF s = << >> THEN Zero ELSE RAdd(Head(s), RSum(Tail(s)))

(* min(list) and max(list) of a non-empty list of numbers *)
RECURSIVE RMinSeq(_)
RMinSeq(s) == IF Len(s) = 1 THEN s[1] ELSE RMin2(s[1], RMinSeq(Tail(s)))

RECURSIVE RMaxSeq(_)
RMaxSeq(s) ==
    IF Len(s) = 1 THEN s[1]
    ELSE LET m == RMaxSeq(Tail(s)) IN IF RLt(s[1], m) THEN m ELSE s[1]

(* statistics.mean(list) of a non-empty list *)
Mean(s) == RDiv(RSum(s), <<Len(s), 1>>)

NotNone(v) == v # None

(***************************************************************************)
(* Configuration (config.py).                                              *)
(***************************************************************************)
NCities == 2

AllCities ==
    <<"zurich", "bern", "basel", "luzern", "geneve",
      "lausanne", "stgallen", "lugano", "winterthur", "biel">>

(* CITIES: the reference cities in their dict order (the first NCities) *)
CITIES == SubSeq(AllCities, 1, NCities)
CitySet == {CITIES[i] : i \in 1..Len(CITIES)}

AvFactorPct == 70
OevSittingFactorPct == 70

COMFORT ==
    [av_factor |-> Rat(AvFactorPct, 100),
     oev_sitting_factor |-> Rat(OevSittingFactorPct, 100)]

DefaultWeightPct == 50

(* SCORING_WEIGHTS as shipped *)
SCORING_WEIGHTS ==
    [accessibility_gain |-> Rat(DefaultWeightPct, 100),
     inherent_attractiveness |-> Rat(DefaultWeightPct, 100)]

(***************************************************************************)
(* compute_comfort_time(raw_seconds, mode, comfort)                        *)
(***************************************************************************)
(* faulty variant: the factors are clamped to [0, 1] before use *)
ComfortTimeClamped(raw_seconds, mode, comfort) ==
    LET Clamp(f) == IF RLt(f, Zero) THEN Zero
                    ELSE IF RLt(<<1, 1>>, f) THEN <<1, 1>> ELSE f
    IN  IF raw_seconds = None THEN None
        ELSE LET minutes == RDiv(raw_seconds, Sixty) IN
             IF mode = "driving_av" THEN RMul(minutes, Clamp(comfort.av_factor))
             ELSE IF mode = "driving_manual" THEN minutes
             ELSE IF mode = "public_transport"
                  THEN RMul(minutes, Clamp(comfort.oev_sitting_factor))
             ELSE minutes

compute_comfort_time(raw_seconds, mode, comfort) ==
    IF raw_seconds = None THEN None
    ELSE LET minutes == RDiv(raw_seconds, Sixty) IN
         IF mode = "driving_av" THEN RMul(minutes, comfort.av_factor)
         ELSE IF mode = "driving_manual" THEN minutes
         ELSE IF mode = "public_transport"
              THEN RMul(minutes, comfort.oev_sitting_factor)
         ELSE minutes

(***************************************************************************)
(* compute_accessibility_gain(driving_times, pt_times): city -> gain|None  *)
(***************************************************************************)
(* faulty variant: the AV comfort time is not subtracted *)
GainWithoutAv(best_today, av_comfort) == best_today

(* line 123 *)
GainFormula(best_today, av_comfort) == RSub(best_today, av_comfort)

CityGain(drive_s, pt_s, comfort) ==
    IF drive_s = None \/ pt_s = None THEN None
    ELSE LET human_drive == compute_comfort_time(drive_s, "driving_manual", comfort)
             pt_comfort == compute_comfort_time(pt_s, "public_transport", comfort)
             best_today == RMin2(human_drive, pt_comfort)
             av_comfort == compute_comfort_time(drive_s, "driving_av", comfort)
         IN  GainFormula(best_today, av_comfort)

compute_accessibility_gain(driving_times, pt_times, comfort) ==
    [city_id \in CitySet |->
        CityGain(Get(driving_times, city_id), Get(pt_times, city_id), comfort)]

(* the values of a dict keyed by the cities, in CITIES order *)
CityValues(dict) == [i \in 1..Len(CITIES) |-> Get(dict, CITIES[i])]

(***************************************************************************)
(* compute_status_quo_access(driving_times, pt_times)                      *)
(***************************************************************************)
CityBest(drive_s, pt_s, comfort) ==
    LET drive_min == IF drive_s # None THEN RDiv(drive_s, Sixty) ELSE None
        pt_min == IF pt_s # None
                  THEN RMul(RDiv(pt_s, Sixty), comfort.oev_sitting_factor)
                  ELSE None
        valid == SelectSeq(<<drive_min, pt_min>>, NotNone)
    IN  IF valid # << >> THEN RMinSeq(valid) ELSE None

(* faulty variant: a city without any valid mode counts as 0 minutes *)
StatusQuoNullAsZero(driving_times, pt_times, comfort) ==
    LET per_city == [i \in 1..Len(CITIES) |->
                        CityBest(Get(driving_times, CITIES[i]),
                                 Get(pt_times, CITIES[i]), comfort)]
        times == [i \in 1..Len(CITIES) |->
                     IF per_city[i] = None THEN Zero ELSE per_city[i]]
    IN  IF SelectSeq(per_city, NotNone) # << >> THEN Mean(times) ELSE None

compute_status_quo_access(driving_times, pt_times, comfort) ==
    LET per_city == [i \in 1..Len(CITIES) |->
                        CityBest(Get(driving_times, CITIES[i]),
                                 Get(pt_times, CITIES[i]), comfort)]
        times == SelectSeq(per_city, NotNone)
    IN  IF times # << >> THEN Mean(times) ELSE None

(***************************************************************************)
(* normalize_values(values, invert)                                        *)
(***************************************************************************)
(* faulty variant: 0 instead of the midpoint *)
NeutralZero(values) ==
    [i \in 1..Len(values) |-> IF values[i] # None THEN Zero ELSE None]

(* line 162: the neutral midpoint of a list without variance *)
Neutral(values) ==
    [i \in 1..Len(values) |-> IF values[i] # None THEN <<50, 1>> ELSE None]

(* faulty variant: the rounding forgotten *)
ScaleUnrounded(v, lo, hi, invert) ==
    LET normalized == RMul(RDiv(RSub(v, lo), RSub(hi, lo)), Hundred)
    IN  IF invert THEN RSub(Hundred, normalized) ELSE normalized

(* faulty variant: the minimum is not subtracted *)
ScaleFromZero(v, lo, hi, invert) ==
    LET normalized == RMul(RDiv(v, RSub(hi, lo)), Hundred)
    IN  Round1(IF invert THEN RSub(Hundred, normalized) ELSE normalized)

(* faulty variant: invert is ignored *)
ScaleIgnoringInvert(v, lo, hi, invert) ==
    Round1(RMul(RDiv(RSub(v, lo), RSub(hi, lo)), Hundred))

(* lines 170-173 *)
Scale(v, lo, hi, invert) ==
    LET normalized == RMul(RDiv(RSub(v, lo), RSub(hi, lo)), Hundred)
    IN  Round1(IF invert THEN RSub(Hundred, normalized) ELSE normalized)

normalize_values(values, invert) ==
    LET valid == SelectSeq(values, NotNone) IN
    IF valid = << >> \/ RMaxSeq(valid) = RMinSeq(valid)
    THEN Neutral(values)
    ELSE LET lo == RMinSeq(valid)
             hi == RMaxSeq(valid)
         IN  [i \in 1..Len(values) |->
                IF values[i] = None THEN None
                ELSE Scale(values[i], lo, hi, invert)]

(***************************************************************************)
(* State.  The arguments of compute_scores (as load_data returns them),    *)
(* its locals, and its result.                                             *)
(***************************************************************************)
VARIABLES
    settlements,        \* list of settlement records
    settlement_drive,   \* uuid -> {city -> seconds|None}
    settlement_pt,      \* uuid -> {city -> seconds|None}
    travel_times,       \* municipality-level {driving, public_transport}
    municipalities,     \* municipality id -> record
    prices,             \* municipality id -> {chf_per_m2, ...}
    taxes,              \* municipality id -> {multiplier, ...}
    pc,                 \* position in compute_scores
    features,           \* line 184
    raw_gains,          \* line 221
    norm_gains,         \* line 230
    raw_status_quo,     \* line 234
    raw_attractiveness, \* line 233
    norm_attract,       \* line 245
    w,                  \* line 248
    gains,              \* line 253, one dict per point
    scored,             \* line 249
    nv_values,          \* normalize_values called on its own: values
    nv_invert,          \*   invert
    nv_result,          \*   the returned list
    call_args,          \* another script's function called on its own: arguments
    call_result         \*   the returned value

inputs ==
    <<settlements, settlement_drive, settlement_pt, travel_times,
      municipalities, prices, taxes>>
locals ==
    <<features, raw_gains, norm_gains, raw_status_quo, raw_attractiveness,
      norm_attract, w, gains, scored>>
nv == <<nv_values, nv_invert, nv_result, call_args, call_result>>
vars == <<inputs, pc, locals, nv>>

(***************************************************************************)
(* Bounded inputs.                                                         *)
(***************************************************************************)
MaxPoints == 3
MaxLen == 4

Uuids == <<"u1", "u2", "u3", "u4", "u5", "u6">>
MuniIds == <<"m1", "m2", "m3", "m4", "m5", "m6">>

Sec(s) == <<s, 1>>
Chf(p) == <<p, 1>>

(* a point's own inputs: its durations per city and its municipality's price *)
DriveValues == {None, Sec(0), Sec(607)}
PtValues == {None, Sec(600), Sec(900)}
PriceRecords ==
    {NoneRec, [chf_per_m2 |-> None], [chf_per_m2 |-> Chf(0)],
     [chf_per_m2 |-> Chf(10000)]}

(* family 1: a run over one settlement, every combination of its inputs *)
SinglePointRuns ==
    {<<[drive |-> d, pt |-> t, price |-> p]>> :
        d \in [CitySet -> DriveValues], t \in [CitySet -> PtValues],
        p \in PriceRecords}

(* family 2: runs over up to MaxPoints settlements that have data for the
   first reference city only *)
FirstCityOnly(v) == [c \in CitySet |-> IF c = CITIES[1] THEN v ELSE None]
ProfilePairs ==
    {<<Sec(600), Sec(900)>>, <<Sec(1200), Sec(1200)>>, <<None, Sec(1800)>>}
ProfilePrices ==
    {NoneRec, [chf_per_m2 |-> Chf(10000)], [chf_per_m2 |-> Chf(8000)],
     [chf_per_m2 |-> Chf(6000)]}
Profiles ==
    {[drive |-> FirstCityOnly(dt[1]), pt |-> FirstCityOnly(dt[2]), price |-> p] :
        dt \in ProfilePairs, p \in ProfilePrices}
MultiPointRuns == UNION {[1..n -> Profiles] : n \in 2..MaxPoints}

Runs == SinglePointRuns \cup MultiPointRuns

(* the weight configurations; SCORING_WEIGHTS as shipped is one of them *)
WeightConfigs ==
    {[accessibility_gain |-> Rat(a, 100), inherent_attractiveness |-> Rat(b, 100)] :
        a \in {0, 50}, b \in {0, 50}}
    \cup {[accessibility_gain |-> Rat(25, 100),
           inherent_attractiveness |-> Rat(75, 100)]}

IndexOfUuid(u) == CHOOSE i \in 1..Len(Uuids) : Uuids[i] = u
IndexOfMuni(m) == CHOOSE i \in 1..Len(MuniIds) : MuniIds[i] = m

(* Settlement i of a run lies in its own municipality MuniIds[i], has its own
   travel-time entries, and its municipality has no aggregate travel times. *)
InitRun(run) ==
    LET n == Len(run)
        us == {Uuids[i] : i \in 1..n}
        ms == {MuniIds[i] : i \in 1..n}
    IN  /\ settlements =
              [i \in 1..n |->
                  [uuid |-> Uuids[i], name |-> Uuids[i],
                   municipality_id |-> MuniIds[i]]]
        /\ settlement_drive = [u \in us |-> run[IndexOfUuid(u)].drive]
        /\ settlement_pt = [u \in us |-> run[IndexOfUuid(u)].pt]
        /\ travel_times = [driving |-> EmptyDict, public_transport |-> EmptyDict]
        /\ municipalities = [m \in ms |-> [name |-> m]]
        /\ prices =
              [m \in {x \in ms : run[IndexOfMuni(x)].price # NoneRec} |->
                  run[IndexOfMuni(m)].price]
        /\ taxes = EmptyDict

InitLocals ==
    /\ features = << >>
    /\ raw_gains = << >>
    /\ norm_gains = << >>
    /\ raw_status_quo = << >>
    /\ raw_attractiveness = << >>
    /\ norm_attract = << >>
    /\ w = NoneRec
    /\ gains = << >>
    /\ scored = << >>

NvIdle ==
    /\ nv_values = << >>
    /\ nv_invert = FALSE
    /\ nv_result = << >>
    /\ call_args = NoneRec
    /\ call_result = NoneRec

Init ==
    /\ \E run \in Runs : InitRun(run)
    /\ pc = "features"
    /\ InitLocals
    /\ NvIdle

(***************************************************************************)
(* compute_scores, lines 179-218: build the settlement features.           *)
(***************************************************************************)
IsTruthyId(id) == id # NoneStr /\ id # ""

(* a join that takes the municipality's aggregate whenever there is one *)
FeatureMunicipalityFirst(s) ==
    LET muni_driving == travel_times.driving
        muni_pt == travel_times.public_transport
        uuid == s.uuid
        muni_id == GetOr(s, "municipality_id", NoneStr)
        d0 == GetOr(settlement_drive, uuid, EmptyDict)
        pt0 == GetOr(settlement_pt, uuid, EmptyDict)
        d == IF IsTruthyId(muni_id) /\ muni_id \in DOMAIN muni_driving
             THEN muni_driving[muni_id] ELSE d0
        pt == IF IsTruthyId(muni_id) /\ muni_id \in DOMAIN muni_pt
              THEN muni_pt[muni_id] ELSE pt0
        muni == IF IsTruthyId(muni_id)
                THEN GetOr(municipalities, muni_id, EmptyDict) ELSE EmptyDict
        price_data == IF IsTruthyId(muni_id)
                      THEN GetOr(prices, muni_id, NoneRec) ELSE NoneRec
        tax_data == IF IsTruthyId(muni_id)
                    THEN GetOr(taxes, muni_id, NoneRec) ELSE NoneRec
    IN  [uuid |-> uuid,
         settlement_name |-> s.name,
         municipality_id |-> muni_id,
         name |-> GetOr(muni, "name", GetOr(s, "municipality_name", s.name)),
         driving |-> d,
         pt |-> pt,
         price_data |-> price_data,
         tax_data |-> tax_data]

Feature(s) ==
    LET muni_driving == travel_times.driving
        muni_pt == travel_times.public_transport
        uuid == s.uuid
        muni_id == GetOr(s, "municipality_id", NoneStr)
        d0 == GetOr(settlement_drive, uuid, EmptyDict)
        pt0 == GetOr(settlement_pt, uuid, EmptyDict)
        d == IF DOMAIN d0 = {} /\ IsTruthyId(muni_id)
             THEN GetOr(muni_driving, muni_id, EmptyDict) ELSE d0
        pt == IF DOMAIN pt0 = {} /\ IsTruthyId(muni_id)
              THEN GetOr(muni_pt, muni_id, EmptyDict) ELSE pt0
        muni == IF IsTruthyId(muni_id)
                THEN GetOr(municipalities, muni_id, EmptyDict) ELSE EmptyDict
        price_data == IF IsTruthyId(muni_id)
                      THEN GetOr(prices, muni_id, NoneRec) ELSE NoneRec
        tax_data == IF IsTruthyId(muni_id)
                    THEN GetOr(taxes, muni_id, NoneRec) ELSE NoneRec
    IN  [uuid |-> uuid,
         settlement_name |-> s.name,
         municipality_id |-> muni_id,
         name |-> GetOr(muni, "name", GetOr(s, "municipality_name", s.name)),
         driving |-> d,
         pt |-> pt,
         price_data |-> price_data,
         tax_data |-> tax_data]

(* the loop of lines 185-218 appends one feature record per settlement *)
BuildFeatureListDroppingOrphans(ss) ==
    LET Known(s) ==
            LET muni_id == GetOr(s, "municipality_id", NoneStr)
            IN  ~IsTruthyId(muni_id) \/ muni_id \in DOMAIN municipalities
        kept == SelectSeq(ss, Known)
    IN  [i \in 1..Len(kept) |-> Feature(kept[i])]

BuildFeatureList(ss) == [i \in 1..Len(ss) |-> Feature(ss[i])]

BuildFeatures ==
    /\ pc = "features"
    /\ features' = BuildFeatureList(settlements)
    /\ pc' = "gains"
    /\ UNCHANGED <<inputs, raw_gains, norm_gains, raw_status_quo,
                   raw_attractiveness, norm_attract, w, gains, scored, nv>>

(***************************************************************************)
(* lines 220-230: sub-score 1, accessibility gain.                         *)
(***************************************************************************)
(* faulty variant: a null per-city gain counts as 0 in the mean *)
RawGainNullAsZero(sf) ==
    LET g == compute_accessibility_gain(sf.driving, sf.pt, COMFORT)
        all_gains == [i \in 1..Len(CITIES) |->
                         IF g[CITIES[i]] = None THEN Zero ELSE g[CITIES[i]]]
    IN  IF SelectSeq(CityValues(g), NotNone) # << >> THEN Mean(all_gains) ELSE None

RawGain(sf) ==
    LET g == compute_accessibility_gain(sf.driving, sf.pt, COMFORT)
        valid_gains == SelectSeq(CityValues(g), NotNone)
    IN  IF valid_gains # << >> THEN Mean(valid_gains) ELSE None

(* faulty variant: a point without valid gains keeps the value left over
   from the point before it *)
RawGainsCarriedOver(fs) ==
    [i \in 1..Len(fs) |->
        IF RawGain(fs[i]) = None /\ i > 1 THEN RawGain(fs[i - 1])
        ELSE RawGain(fs[i])]

(* the loop of lines 221-228 over the features *)
RawGainsOf(fs) == [i \in 1..Len(fs) |-> RawGain(fs[i])]

ComputeGains ==
    /\ pc = "gains"
    /\ raw_gains' = RawGainsOf(features)
    /\ norm_gains' = normalize_values(raw_gains', FALSE)
    /\ pc' = "attractiveness"
    /\ UNCHANGED <<inputs, features, raw_status_quo, raw_attractiveness,
                   norm_attract, w, gains, scored, nv>>

(***************************************************************************)
(* lines 232-245: sub-score 2, inherent attractiveness.                    *)
(***************************************************************************)
(* faulty variant: the ratio upside down *)
RawAttractivenessInverted(pd, sq) ==
    IF /\ pd # NoneRec
       /\ Truthy(Get(pd, "chf_per_m2"))
       /\ Truthy(sq)
       /\ RLt(Zero, sq)
    THEN RDiv(sq, pd.chf_per_m2)
    ELSE None

RawAttractiveness(pd, sq) ==
    IF /\ pd # NoneRec
       /\ Truthy(Get(pd, "chf_per_m2"))
       /\ Truthy(sq)
       /\ RLt(Zero, sq)
    THEN RDiv(pd.chf_per_m2, sq)
    ELSE None

(* the loop of lines 235-243 over the features *)
StatusQuosOf(fs) ==
    [i \in 1..Len(fs) |->
        compute_status_quo_access(fs[i].driving, fs[i].pt, COMFORT)]

RawAttractivenessOf(fs, sqs) ==
    [i \in 1..Len(fs) |-> RawAttractiveness(fs[i].price_data, sqs[i])]

ComputeAttractiveness ==
    /\ pc = "attractiveness"
    /\ raw_status_quo' = StatusQuosOf(features)
    /\ raw_attractiveness' = RawAttractivenessOf(features, raw_status_quo')
    /\ norm_attract' = normalize_values(raw_attractiveness', FALSE)
    /\ pc' = "combine"
    /\ UNCHANGED <<inputs, features, raw_gains, norm_gains, w, gains, scored, nv>>

(***************************************************************************)
(* lines 247-324: the combined score and the emitted record.               *)
(***************************************************************************)
ComponentKeys == <<"accessibility_gain", "inherent_attractiveness">>

IsValidComponent(kv) == kv[2] # None

(* faulty variant: the plain average of the valid components, weights ignored *)
CombinedScoreUnweighted(components, weights) ==
    LET items == [j \in 1..Len(ComponentKeys) |->
                     <<ComponentKeys[j], components[ComponentKeys[j]]>>]
        valid_components == SelectSeq(items, IsValidComponent)
        n == Len(valid_components)
        total_weight == RSum([j \in 1..n |-> weights[valid_components[j][1]]])
    IN  IF n > 0 /\ RLt(Zero, total_weight)
        THEN Mean([j \in 1..n |-> valid_components[j][2]])
        ELSE None

(* faulty variant: no renormalisation, a missing sub-score still weighs in *)
CombinedScoreNoRenormalisation(components, weights) ==
    LET items == [j \in 1..Len(ComponentKeys) |->
                     <<ComponentKeys[j], components[ComponentKeys[j]]>>]
        valid_components == SelectSeq(items, IsValidComponent)
        n == Len(valid_components)
        total_weight == RSum([j \in 1..n |-> weights[valid_components[j][1]]])
        all_weight == RSum([j \in 1..Len(ComponentKeys) |-> weights[ComponentKeys[j]]])
    IN  IF n > 0 /\ RLt(Zero, total_weight)
        THEN RSum([j \in 1..n |->
                     RDiv(RMul(valid_components[j][2],
                               weights[valid_components[j][1]]),
                          all_weight)])
        ELSE None

(* lines 260-274; components: key -> value|None, weights: key -> weight *)
CombinedScore(components, weights) ==
    LET items == [j \in 1..Len(ComponentKeys) |->
                     <<ComponentKeys[j], components[ComponentKeys[j]]>>]
        valid_components == SelectSeq(items, IsValidComponent)
        n == Len(valid_components)
        total_weight == RSum([j \in 1..n |-> weights[valid_components[j][1]]])
    IN  IF n > 0
        THEN IF RLt(Zero, total_weight)
             THEN RSum([j \in 1..n |->
                          RDiv(RMul(valid_components[j][2],
                                    weights[valid_components[j][1]]),
                               total_weight)])
             ELSE None
        ELSE None

(* lines 277-282: the loop over gains.items(), from city k on *)
RECURSIVE BestCityLoop(_, _, _, _)
BestCityLoop(g, k, best_gain, best_city) ==
    IF k > Len(CITIES) THEN best_city
    ELSE LET gain == g[CITIES[k]] IN
         IF gain # None /\ (best_gain = None \/ RLt(best_gain, gain))
         THEN BestCityLoop(g, k + 1, gain, CITIES[k])
         ELSE BestCityLoop(g, k + 1, best_gain, best_city)

(* faulty variant: best_gain starts at 0 *)
BestCityFromZero(g) == BestCityLoop(g, 1, Zero, NoneStr)

(* best_gain starts at -inf, written None here: every gain exceeds it *)
BestCity(g) == BestCityLoop(g, 1, None, NoneStr)

(* round(v, 1) if v else None *)
RoundIfTruthy(v) == IF Truthy(v) THEN Round1(v) ELSE None

MinOrNone(list) == IF list # << >> THEN RMinSeq(list) ELSE None

PointIds == <<"s_0", "s_1", "s_2", "s_3", "s_4", "s_5">>

ScoredPoint(i, sf, g, weights) ==
    LET d == sf.driving
        pt == sf.pt
        components ==
            [accessibility_gain |-> norm_gains[i],
             inherent_attractiveness |-> norm_attract[i]]
        score == CombinedScore(components, weights)
        drive_times_list == SelectSeq(CityValues(d), NotNone)
        pt_times_list == SelectSeq(CityValues(pt), NotNone)
        price_data == sf.price_data
        tax_data == sf.tax_data
    IN  [id |-> PointIds[i],
         settlement_name |-> sf.settlement_name,
         municipality_id |-> sf.municipality_id,
         name |-> sf.name,
         drive_times |-> [c \in CitySet |-> Get(d, c)],
         pt_times |-> [c \in CitySet |-> Get(pt, c)],
         min_drive_s |-> MinOrNone(drive_times_list),
         min_pt_s |-> MinOrNone(pt_times_list),
         gain_per_city |-> [c \in CitySet |-> RoundIfTruthy(g[c])],
         best_city |-> BestCity(g),
         chf_per_m2 |-> IF price_data # NoneRec
                        THEN Get(price_data, "chf_per_m2") ELSE None,
         tax_multiplier |-> IF tax_data # NoneRec
                            THEN Get(tax_data, "multiplier") ELSE None,
         status_quo_access |-> RoundIfTruthy(raw_status_quo[i]),
         inherent_attractiveness_raw |-> RoundIfTruthy(raw_attractiveness[i]),
         score_accessibility |-> components.accessibility_gain,
         score_attractiveness |-> components.inherent_attractiveness,
         autonomy_score |-> IF score # None THEN Round1(score) ELSE None]

(* line 253, for every point of the loop of line 252 *)
GainsOf(fs) ==
    [i \in 1..Len(fs) |->
        compute_accessibility_gain(fs[i].driving, fs[i].pt, COMFORT)]

(* w = SCORING_WEIGHTS is configuration: the run reads one of WeightConfigs *)
Combine ==
    /\ pc = "combine"
    /\ \E weights \in WeightConfigs :
          /\ w' = weights
          /\ gains' = GainsOf(features)
          /\ scored' = [i \in 1..Len(features) |->
                           ScoredPoint(i, features[i], gains'[i], weights)]
    /\ pc' = "done"
    /\ UNCHANGED <<inputs, features, raw_gains, norm_gains, raw_status_quo,
                   raw_attractiveness, norm_attract, nv>>

Next == BuildFeatures \/ ComputeGains \/ ComputeAttractiveness \/ Combine

Spec == Init /\ [][Next]_vars

(***************************************************************************)
(* normalize_values called on its own, on every list of up to MaxLen       *)
(* values and with either setting of invert.                               *)
(***************************************************************************)
NormInputValues == {None, <<0, 1>>, <<1, 1>>, <<3, 1>>, <<-7, 2>>}

NormInputs == UNION {[1..n -> NormInputValues] : n \in 0..MaxLen}

InitNormalize ==
    /\ \E run \in {<< >>} : InitRun(run)
    /\ InitLocals
    /\ pc = "normalize_call"
    /\ nv_values \in NormInputs
    /\ nv_invert \in BOOLEAN
    /\ nv_result = << >>
    /\ call_args = NoneRec
    /\ call_result = NoneRec

(* 06_generate_demo.py has its own normalize_values, lines 46-61 *)
demo_normalize_values(values, invert) ==
    LET valid == SelectSeq(values, NotNone) IN
    IF valid = << >> \/ RMaxSeq(valid) = RMinSeq(valid)
    THEN [i \in 1..Len(values) |-> IF values[i] # None THEN <<50, 1>> ELSE None]
    ELSE LET lo == RMinSeq(valid)
             hi == RMaxSeq(valid)
             normalized(v) == RMul(RDiv(RSub(v, lo), RSub(hi, lo)), Hundred)
         IN  [i \in 1..Len(values) |->
                IF values[i] = None THEN None
                ELSE Round1(IF invert THEN RSub(Hundred, normalized(values[i]))
                            ELSE normalized(values[i]))]

(* both functions are called on the same list: nv_result is the list that
   05_compute_scores.py returns, call_result the one of 06_generate_demo.py *)
NormalizeCall ==
    /\ pc = "normalize_call"
    /\ nv_result' = normalize_values(nv_values, nv_invert)
    /\ call_result' = demo_normalize_values(nv_values, nv_invert)
    /\ pc' = "normalize_return"
    /\ UNCHANGED <<inputs, locals, nv_values, nv_invert, call_args>>

NextNormalize == NormalizeCall

SpecNormalize == InitNormalize /\ [][NextNormalize]_vars

(***************************************************************************)
(* Runs for the downward join (lines 185-218): settlements that may lack   *)
(* their own travel-time entries, may lie in no municipality, in a         *)
(* municipality of the catalog or in one the catalog does not know, next   *)
(* to a municipality catalog that has aggregate travel times, prices and   *)
(* taxes for some municipalities only.                                     *)
(***************************************************************************)
MaxJoinPoints == 2

(* m1: aggregate times for both modes, a price and a tax record;
   m2: aggregate driving times that are all null, no transit entry, no price,
       a tax record without multiplier;
   m9: not in the municipality catalog *)
CatalogMunis == {"m1", "m2"}
OrphanMuni == "m9"
JoinMuniIds == {NoneStr, OrphanMuni} \cup CatalogMunis

AllCitiesAt(v) == [c \in CitySet |-> v]

MuniDriving == ("m1" :> AllCitiesAt(Sec(300))) @@ ("m2" :> AllCitiesAt(None))
MuniPt == ("m1" :> AllCitiesAt(Sec(450)))
MuniPrices == ("m1" :> [chf_per_m2 |-> Chf(8000)])
MuniTaxes ==
    ("m1" :> [multiplier |-> Rat(219, 1)]) @@ ("m2" :> [multiplier |-> None])

(* a settlement's own entry for a mode: absent, the empty dict, a dict whose
   durations are all null (what fetch_osrm_driving stores for a failed
   batch), a dict with the first city only, or a dict with every city *)
OwnEntry(kind, v) ==
    CASE kind = "empty" -> EmptyDict
      [] kind = "null" -> AllCitiesAt(None)
      [] kind = "part" -> FirstCityOnly(v)
      [] kind = "own" -> AllCitiesAt(v)

JoinKinds ==
    {<<"own", "own">>, <<"absent", "absent">>, <<"empty", "own">>,
     <<"null", "absent">>, <<"own", "null">>, <<"part", "own">>}

JoinProfiles ==
    {[muni |-> m, drive |-> k[1], pt |-> k[2]] : m \in JoinMuniIds, k \in JoinKinds}

JoinRuns == UNION {[1..n -> JoinProfiles] : n \in 1..MaxJoinPoints}

JoinSettlement(i, p) ==
    IF p.muni = NoneStr
    THEN [uuid |-> Uuids[i], name |-> Uuids[i]]
    ELSE [uuid |-> Uuids[i], name |-> Uuids[i], municipality_id |-> p.muni]

InitJoinRun(run) ==
    LET n == Len(run)
        HasDrive == {Uuids[i] : i \in {j \in 1..n : run[j].drive # "absent"}}
        HasPt == {Uuids[i] : i \in {j \in 1..n : run[j].pt # "absent"}}
    IN  /\ settlements = [i \in 1..n |-> JoinSettlement(i, run[i])]
        /\ settlement_drive =
              [u \in HasDrive |-> OwnEntry(run[IndexOfUuid(u)].drive, Sec(600))]
        /\ settlement_pt =
              [u \in HasPt |-> OwnEntry(run[IndexOfUuid(u)].pt, Sec(900))]
        /\ travel_times = [driving |-> MuniDriving, public_transport |-> MuniPt]
        /\ municipalities = [m \in CatalogMunis |-> [name |-> m]]
        /\ prices = MuniPrices
        /\ taxes = MuniTaxes

InitJoin ==
    /\ \E run \in JoinRuns : InitJoinRun(run)
    /\ pc = "features"
    /\ InitLocals
    /\ NvIdle

SpecJoin == InitJoin /\ [][Next]_vars

(***************************************************************************)
(* Properties.  They are stated in integer arithmetic on the inputs, not   *)
(* with the operators above: with d, t in seconds and the factors in       *)
(* percent, 6000 * (d/60) = 100*d, 6000 * (t/60 * oev) = oev_pct * t and   *)
(* 6000 * (d/60 * av) = av_pct * d.                                        *)
(***************************************************************************)
Min2(a, b) == IF a <= b THEN a ELSE b

(* 6000 * (min(d/60, t/60 * oev) - d/60 * av), both durations present *)
Gain6000(d, t) ==
    Min2(100 * d[1], OevSittingFactorPct * t[1]) - AvFactorPct * d[1]

(* 6000 * the best of the modes present today, at least one present *)
Best6000(d, t) ==
    IF d # None /\ t # None THEN Min2(100 * d[1], OevSittingFactorPct * t[1])
    ELSE IF d # None THEN 100 * d[1]
    ELSE OevSittingFactorPct * t[1]

RECURSIVE SumOver(_, _)
SumOver(f, S) ==
    IF S = {} THEN 0
    ELSE LET x == CHOOSE y \in S : TRUE IN f[x] + SumOver(f, S \ {x})

(* r is x rounded to one decimal: a multiple of 1/10 at most 1/20 from x *)
IsRounded1(r, x) ==
    /\ (10 * r[1]) % r[2] = 0
    /\ LET e == RSub(r, x) IN 20 * Abs(e[1]) <= e[2]

Points == 1..Len(features)
DriveOf(i, c) == Get(features[i].driving, c)
PtOf(i, c) == Get(features[i].pt, c)
BothModes(i) == {c \in CitySet : DriveOf(i, c) # None /\ PtOf(i, c) # None}
SomeMode(i) == {c \in CitySet : DriveOf(i, c) # None \/ PtOf(i, c) # None}

(* C1: compute_accessibility_gain gives a city a null gain iff its driving
   or its transit duration is null, and otherwise exactly
   min(drive/60, transit/60 * oev_sitting_factor) - drive/60 * av_factor. *)
C1_GainPerCity ==
    pc = "done" =>
        \A i \in Points : \A c \in CitySet :
            LET g == gains[i][c] IN
            /\ (g = None) <=> (c \notin BothModes(i))
            /\ g # None => g[1] * 6000 = g[2] * Gain6000(DriveOf(i, c), PtOf(i, c))

(* a point with a negative gain for one city and, for another city, a null
   gain although its driving duration is known *)
C1_Witness ==
    /\ pc = "done"
    /\ \E i \in Points : \E c1, c2 \in CitySet :
          /\ gains[i][c1] # None /\ gains[i][c1][1] < 0
          /\ gains[i][c2] = None /\ DriveOf(i, c2) # None

(* C2: in every emitted point gain_per_city[c] is null iff the driving or the
   transit duration for c is null, and otherwise the gain rounded to one
   decimal.  Stated for the durations the travel-time stages are meant to
   supply, null or strictly positive, which is all the refutation needs. *)
C2_EmittedGainPerCity ==
    pc = "done" =>
        \A i \in Points : \A c \in CitySet :
            LET e == scored[i].gain_per_city[c]
                d == scored[i].drive_times[c]
                t == scored[i].pt_times[c]
            IN  (d = None \/ d[1] > 0) /\ (t = None \/ t[1] > 0) =>
                    /\ (e = None) <=> (d = None \/ t = None)
                    /\ e # None => IsRounded1(e, Rat(Gain6000(d, t), 6000))

(* C5: the score combiner includes the non-null sub-scores only; with
   total_weight the sum of their weights, the score is
   sum(value * weight) / total_weight rounded to one decimal when
   total_weight > 0 and null otherwise. *)
C5_ScoreCombiner ==
    pc = "done" =>
        \A i \in Points :
            LET a == scored[i].score_accessibility
                b == scored[i].score_attractiveness
                wa == w.accessibility_gain
                wb == w.inherent_attractiveness
                total_weight == RAdd(IF a # None THEN wa ELSE Zero,
                                     IF b # None THEN wb ELSE Zero)
                weighted == RAdd(IF a # None THEN RMul(a, wa) ELSE Zero,
                                 IF b # None THEN RMul(b, wb) ELSE Zero)
                r == scored[i].autonomy_score
            IN  IF RLt(Zero, total_weight)
                THEN r # None /\ IsRounded1(r, RDiv(weighted, total_weight))
                ELSE r = None

(* a run with unequal weights scoring a point with two different sub-scores,
   and a point without any sub-score *)
C5_Witness ==
    /\ pc = "done"
    /\ w.accessibility_gain # w.inherent_attractiveness
    /\ RLt(Zero, w.accessibility_gain)
    /\ RLt(Zero, w.inherent_attractiveness)
    /\ \E i, j \in Points :
          /\ scored[i].score_accessibility # None
          /\ scored[i].score_attractiveness # None
          /\ scored[i].score_accessibility # scored[i].score_attractiveness
          /\ scored[i].autonomy_score # None
          /\ scored[j].score_accessibility = None
          /\ scored[j].score_attractiveness = None
          /\ scored[j].autonomy_score = None

(* a run whose weights are all zero, on a point that has both sub-scores *)
C5_WitnessZeroWeight ==
    /\ pc = "done"
    /\ w.accessibility_gain = Zero /\ w.inherent_attractiveness = Zero
    /\ \E i \in Points :
          /\ scored[i].score_accessibility # None
          /\ scored[i].score_attractiveness # None
          /\ scored[i].autonomy_score = None

OnlySubScore(i) ==
    IF scored[i].score_accessibility # None THEN scored[i].score_accessibility
    ELSE scored[i].score_attractiveness
OnlyWeight(i) ==
    IF scored[i].score_accessibility # None THEN w.accessibility_gain
    ELSE w.inherent_attractiveness
ExactlyOneSubScore(i) ==
    (scored[i].score_accessibility = None) # (scored[i].score_attractiveness = None)

(* C6 as stated: whenever exactly one of a point's two sub-scores is non-null,
   its autonomy_score equals that sub-score exactly. *)
C6_OneSubScoreIsTheScore ==
    pc = "done" =>
        \A i \in Points :
            ExactlyOneSubScore(i) => scored[i].autonomy_score = OnlySubScore(i)

(* C6 amended: whenever exactly one of a point's two sub-scores is non-null
   and the weight configured for that sub-score is positive, its
   autonomy_score equals that sub-score exactly; when that weight is zero the
   autonomy_score is null. *)
C6_OneSubScoreWithPositiveWeight ==
    pc = "done" =>
        \A i \in Points :
            ExactlyOneSubScore(i) =>
                scored[i].autonomy_score =
                    IF RLt(Zero, OnlyWeight(i)) THEN OnlySubScore(i) ELSE None

(* the shipped weights, a point scored on its accessibility alone and another
   on its attractiveness alone, neither at the midpoint *)
C6_Witness ==
    /\ pc = "done"
    /\ w = SCORING_WEIGHTS
    /\ \E i, j \in Points :
          /\ scored[i].score_accessibility = Hundred
          /\ scored[i].score_attractiveness = None
          /\ scored[i].autonomy_score = Hundred
          /\ scored[j].score_accessibility = None
          /\ scored[j].score_attractiveness = Zero
          /\ scored[j].autonomy_score = Zero

(* the inherited price: the chf_per_m2 of the settlement's municipality in
   the price catalog, null without a record *)
InheritedChf(i) ==
    LET m == settlements[i].municipality_id
    IN  IF m \in DOMAIN prices THEN prices[m].chf_per_m2 ELSE None

(* C7: a point's raw attractiveness is non-null iff its inherited chf_per_m2
   is present and strictly positive and its status-quo accessibility is
   present and strictly positive; then it equals chf_per_m2 / status_quo. *)
C7_RawAttractiveness ==
    pc \in {"combine", "done"} =>
        \A i \in Points :
            LET chf == InheritedChf(i)
                sq == raw_status_quo[i]
                v == raw_attractiveness[i]
            IN  /\ (v # None) <=>
                      /\ chf # None /\ RLt(Zero, chf)
                      /\ sq # None /\ RLt(Zero, sq)
                /\ v # None => RMul(v, sq) = chf

(* a run with a priced point that has an attractiveness, and a point with a
   positive status-quo accessibility whose municipality has no price *)
C7_Witness ==
    /\ pc = "done"
    /\ \E i, j \in Points :
          /\ raw_attractiveness[i] # None
          /\ raw_attractiveness[i] # InheritedChf(i)
          /\ InheritedChf(j) = None
          /\ raw_status_quo[j] # None
          /\ raw_attractiveness[j] = None

(* a priced point whose status-quo accessibility is 0 minutes *)
C7_WitnessZeroStatusQuo ==
    /\ pc = "done"
    /\ \E i \in Points :
          /\ InheritedChf(i) # None /\ RLt(Zero, InheritedChf(i))
          /\ raw_status_quo[i] = Zero
          /\ raw_attractiveness[i] = None

(* C8: compute_status_quo_access takes, per city, the minimum of drive/60 and
   transit/60 * oev_sitting_factor over the modes that are non-null, leaves
   out the cities whose two durations are null, and returns the arithmetic
   mean over the remaining cities, null when none remains. *)
C8_StatusQuoAccess ==
    pc \in {"combine", "done"} =>
        \A i \in Points :
            LET S == SomeMode(i)
                sq == raw_status_quo[i]
                best == [c \in S |-> Best6000(DriveOf(i, c), PtOf(i, c))]
            IN  /\ (sq = None) <=> (S = {})
                /\ sq # None =>
                      sq[1] * 6000 * Cardinality(S) = sq[2] * SumOver(best, S)

(* a point with a city that has no valid mode and a city that has transit
   only; its status quo is that city's transit comfort time *)
C8_Witness ==
    /\ pc = "done"
    /\ \E i \in Points : \E c1, c2 \in CitySet :
          /\ DriveOf(i, c1) = None /\ PtOf(i, c1) = None
          /\ DriveOf(i, c2) = None /\ PtOf(i, c2) # None
          /\ SomeMode(i) = {c2}
          /\ raw_status_quo[i] # None /\ RLt(Zero, raw_status_quo[i])

(* C9: a point's scalar gain is the arithmetic mean of its non-null per-city
   gains, null exactly when all of them are null; a null per-city gain is
   never counted as zero. *)
C9_ScalarGain ==
    pc \in {"attractiveness", "combine", "done"} =>
        \A i \in Points :
            LET G == BothModes(i)
                rg == raw_gains[i]
                g == [c \in G |-> Gain6000(DriveOf(i, c), PtOf(i, c))]
            IN  /\ (rg = None) <=> (G = {})
                /\ rg # None =>
                      rg[1] * 6000 * Cardinality(G) = rg[2] * SumOver(g, G)

(* a point with a null gain for one city and a non-zero gain for another *)
C9_Witness ==
    /\ pc = "done"
    /\ \E i \in Points : \E c1, c2 \in CitySet :
          /\ gains[i][c1] = None
          /\ gains[i][c2] # None /\ gains[i][c2] # Zero
          /\ raw_gains[i] = gains[i][c2]

(***************************************************************************)
(* The end-to-end scenario of three municipalities and one reference city  *)
(* (the other reference cities have no durations).                         *)
(***************************************************************************)
City1 == CITIES[1]

IsScenario ==
    /\ Len(settlements) = 3
    /\ settlement_drive =
          [u \in {"u1", "u2", "u3"} |->
              FirstCityOnly(IF u = "u1" THEN Sec(600)
                            ELSE IF u = "u2" THEN Sec(1200) ELSE None)]
    /\ settlement_pt =
          [u \in {"u1", "u2", "u3"} |->
              FirstCityOnly(IF u = "u1" THEN Sec(900)
                            ELSE IF u = "u2" THEN Sec(1200) ELSE Sec(1800))]
    /\ prices =
          [m \in {"m1", "m2", "m3"} |->
              [chf_per_m2 |-> IF m = "m1" THEN Chf(10000)
                              ELSE IF m = "m2" THEN Chf(8000) ELSE Chf(6000)]]

ScenarioStatusQuo ==
    /\ raw_status_quo = << <<10, 1>>, <<14, 1>>, <<21, 1>> >>
    /\ scored[1].status_quo_access = <<10, 1>>
    /\ scored[2].status_quo_access = <<14, 1>>
    /\ scored[3].status_quo_access = <<21, 1>>

ScenarioAttractiveness ==
    raw_attractiveness = << <<1000, 1>>, <<4000, 7>>, <<2000, 7>> >>

ScenarioNormalizedGain ==
    /\ scored[1].score_accessibility = Hundred
    /\ scored[2].score_accessibility = Zero
    /\ scored[3].score_accessibility = None

ScenarioM3Score ==
    scored[3].autonomy_score = scored[3].score_attractiveness

(* C10: the scenario M1 (600 s, 900 s, 10000), M2 (1200 s, 1200 s, 8000),
   M3 (null, 1800 s, 6000) yields the gains 3.0, 0.0 and null, the status
   quo 10.0, 14.0 and 21.0, the raw attractiveness 10000/10, 8000/14 and
   6000/21, the normalized gains 100.0, 0.0 and null, and for M3 a combined
   score equal to its attractiveness sub-score. *)
C10_Scenario ==
    pc = "done" /\ IsScenario /\ w = SCORING_WEIGHTS =>
        /\ scored[1].gain_per_city[City1] = <<3, 1>>
        /\ scored[2].gain_per_city[City1] = Zero
        /\ scored[3].gain_per_city[City1] = None
        /\ ScenarioStatusQuo
        /\ ScenarioAttractiveness
        /\ ScenarioNormalizedGain
        /\ ScenarioM3Score

(* What the scenario does yield: everything C10 lists, with M2's gain 0.0
   in the result of compute_accessibility_gain but null in the emitted
   gain_per_city. *)
ScenarioAsComputed ==
    pc = "done" /\ IsScenario /\ w = SCORING_WEIGHTS =>
        /\ gains[1][City1] = <<3, 1>> /\ scored[1].gain_per_city[City1] = <<3, 1>>
        /\ gains[2][City1] = Zero /\ scored[2].gain_per_city[City1] = None
        /\ gains[3][City1] = None /\ scored[3].gain_per_city[City1] = None
        /\ ScenarioStatusQuo
        /\ ScenarioAttractiveness
        /\ ScenarioNormalizedGain
        /\ ScenarioM3Score

ScenarioReached == pc = "done" /\ IsScenario /\ w = SCORING_WEIGHTS

(***************************************************************************)
(* normalize_values on its own (SpecNormalize).                            *)
(***************************************************************************)
Positions == 1..Len(nv_values)
NonNull == {nv_values[i] : i \in {j \in Positions : nv_values[j] # None}}
Degenerate == Cardinality(NonNull) <= 1
Smallest == CHOOSE m \in NonNull : \A x \in NonNull : RLe(m, x)
Largest == CHOOSE m \in NonNull : \A x \in NonNull : RLe(x, m)

(* C3: when the list has no non-null value or all its non-null values are
   equal, every non-null position maps to exactly 50 and every null position
   stays null, with or without invert. *)
C3_NormalizeDegenerate ==
    pc = "normalize_return" /\ Degenerate =>
        /\ Len(nv_result) = Len(nv_values)
        /\ \A i \in Positions :
              nv_result[i] = IF nv_values[i] = None THEN None ELSE <<50, 1>>

(* a constant non-null list of length MaxLen normalized with invert *)
C3_Witness ==
    /\ pc = "normalize_return"
    /\ nv_invert
    /\ Len(nv_values) = MaxLen
    /\ \A i \in Positions : nv_values[i] = <<-7, 2>>
    /\ \A i \in Positions : nv_result[i] = <<50, 1>>

(* C4: otherwise the output has the length of the input, is null exactly
   where the input is, and maps each non-null v to (v - min)/(max - min) * 100
   rounded to one decimal, 100 minus that with invert; so the minimum maps to
   0.0 and the maximum to 100.0, and [a, b] with a < b to [0.0, 100.0]. *)
C4_NormalizeLinear ==
    pc = "normalize_return" /\ ~Degenerate =>
        /\ Len(nv_result) = Len(nv_values)
        /\ \A i \in Positions :
              LET v == nv_values[i]
                  x == RMul(RDiv(RSub(v, Smallest), RSub(Largest, Smallest)),
                            Hundred)
              IN  IF v = None THEN nv_result[i] = None
                  ELSE /\ nv_result[i] # None
                       /\ IsRounded1(nv_result[i],
                                     IF nv_invert THEN RSub(Hundred, x) ELSE x)
                       /\ ~nv_invert /\ v = Smallest => nv_result[i] = Zero
                       /\ ~nv_invert /\ v = Largest => nv_result[i] = Hundred
        /\ /\ ~nv_invert
           /\ Len(nv_values) = 2
           /\ nv_values[1] # None /\ nv_values[2] # None
           /\ RLt(nv_values[1], nv_values[2])
           => nv_result = <<Zero, Hundred>>

(* a list with a null and three different values, one of them mapped strictly
   between 0 and 100 and not a whole number *)
C4_Witness ==
    /\ pc = "normalize_return"
    /\ ~Degenerate
    /\ \E i, j \in Positions :
          /\ nv_values[i] = None /\ nv_result[i] = None
          /\ nv_result[j] # None /\ nv_result[j][2] # 1

(***************************************************************************)
(* Properties of the downward join, over the runs of SpecJoin.             *)
(***************************************************************************)
Settled == 1..Len(settlements)
MuniOf(i) == GetOr(settlements[i], "municipality_id", NoneStr)
OwnDrive(i) == GetOr(settlement_drive, settlements[i].uuid, EmptyDict)
OwnPt(i) == GetOr(settlement_pt, settlements[i].uuid, EmptyDict)
AggregateDrive(i) == GetOr(travel_times.driving, MuniOf(i), EmptyDict)
AggregatePt(i) == GetOr(travel_times.public_transport, MuniOf(i), EmptyDict)

(* no entry, an empty entry, or an entry whose durations are all null *)
HasNoTimes(entry) == \A c \in CitySet : Get(entry, c) = None
TimesOf(entry) == [c \in CitySet |-> Get(entry, c)]

(* C11: a settlement of a municipality that has no travel-time data of its
   own for a mode (no entry, an empty entry, or an entry whose durations are
   all null) is emitted with its municipality's aggregate durations for that
   mode. *)
C11_DownwardJoin ==
    pc = "done" =>
        \A i \in Settled :
            IsTruthyId(MuniOf(i)) =>
                /\ HasNoTimes(OwnDrive(i)) =>
                       scored[i].drive_times = TimesOf(AggregateDrive(i))
                /\ HasNoTimes(OwnPt(i)) =>
                       scored[i].pt_times = TimesOf(AggregatePt(i))

IsOrphanId(m) == IsTruthyId(m) /\ m \notin DOMAIN municipalities

(* C12: a settlement whose municipality_id is not in the municipality catalog
   never appears among the scored points. *)
C12_OrphansDropped ==
    pc = "done" =>
        \A k \in 1..Len(scored) : ~IsOrphanId(scored[k].municipality_id)

NoUsableData(i) ==
    /\ HasNoTimes(OwnDrive(i)) /\ HasNoTimes(OwnPt(i))
    /\ HasNoTimes(AggregateDrive(i)) /\ HasNoTimes(AggregatePt(i))

(* C13: compute_scores never stops on missing data and returns exactly one
   scored record per input settlement, in input order; a settlement without
   any usable travel time is emitted with null score fields. *)
C13_Completeness ==
    /\ pc # "features" => Len(features) = Len(settlements)
    /\ pc = "done" =>
        /\ Len(scored) = Len(settlements)
        /\ \A i \in Settled :
              /\ scored[i].id = PointIds[i]
              /\ scored[i].settlement_name = settlements[i].name
              /\ scored[i].municipality_id = MuniOf(i)
              /\ NoUsableData(i) =>
                    /\ scored[i].score_accessibility = None
                    /\ scored[i].score_attractiveness = None
                    /\ scored[i].autonomy_score = None

C13_Witness ==
    /\ pc = "done"
    /\ Len(settlements) = 2
    /\ NoUsableData(1) /\ IsOrphanId(MuniOf(1))
    /\ scored[1].settlement_name = settlements[1].name
    /\ scored[1].autonomy_score = None
    /\ ~NoUsableData(2)
    /\ scored[2].settlement_name = settlements[2].name

CatalogValue(catalog, i, field) ==
    IF IsTruthyId(MuniOf(i)) /\ MuniOf(i) \in DOMAIN catalog
    THEN catalog[MuniOf(i)][field] ELSE None

(* C17: a scored settlement's chf_per_m2 and tax_multiplier are those of the
   record of its municipality_id in the price and tax catalogs, null when
   there is no record; its own travel times, when it has any, are emitted
   and not the municipality's. *)
C17_Inheritance ==
    pc = "done" =>
        \A i \in Settled :
            /\ scored[i].chf_per_m2 = CatalogValue(prices, i, "chf_per_m2")
            /\ scored[i].tax_multiplier = CatalogValue(taxes, i, "multiplier")
            /\ ~HasNoTimes(OwnDrive(i)) =>
                   scored[i].drive_times = TimesOf(OwnDrive(i))
            /\ ~HasNoTimes(OwnPt(i)) =>
                   scored[i].pt_times = TimesOf(OwnPt(i))

C17_Witness ==
    /\ pc = "done"
    /\ \E i \in Settled :
          /\ MuniOf(i) = "m1"
          /\ ~HasNoTimes(OwnDrive(i))
          /\ TimesOf(OwnDrive(i)) # TimesOf(AggregateDrive(i))
          /\ scored[i].drive_times = TimesOf(OwnDrive(i))
          /\ scored[i].chf_per_m2 = Chf(8000)
          /\ scored[i].tax_multiplier = Rat(219, 1)
    /\ \E i \in Settled :
          /\ MuniOf(i) = "m2"
          /\ scored[i].chf_per_m2 = None
          /\ scored[i].tax_multiplier = None

(***************************************************************************)
(* The functions of the other pipeline scripts are called on their own:    *)
(* compute_scores is idle, call_args holds the arguments and call_result   *)
(* the returned value.                                                     *)
(***************************************************************************)
InitCall(position) ==
    /\ \E run \in {<< >>} : InitRun(run)
    /\ InitLocals
    /\ nv_values = << >>
    /\ nv_invert = FALSE
    /\ nv_result = << >>
    /\ pc = position
    /\ call_result = NoneRec

Return(position, value) ==
    /\ call_result' = value
    /\ pc' = position
    /\ UNCHANGED <<inputs, locals, nv_values, nv_invert, nv_result, call_args>>

(***************************************************************************)
(* 02c_fetch_travel_times_settlements.py, aggregate_to_municipalities      *)
(* (settlement_times, muni_to_settlements), lines 226-250; the function of *)
(* the same name in 02b_fetch_travel_times_plz.py, lines 215-243, is the   *)
(* same code over postal-code points.                                      *)
(***************************************************************************)
ValidTimes(settlement_times, settlement_uuids, city_id) ==
    LET t(k) == Get(GetOr(settlement_times, settlement_uuids[k], EmptyDict), city_id)
    IN  SelectSeq([k \in 1..Len(settlement_uuids) |-> t(k)], NotNone)

AggregateNullIfAnyNull(settlement_times, muni_to_settlements) ==
    [muni_id \in DOMAIN muni_to_settlements |->
        [city_id \in CitySet |->
            LET times == ValidTimes(settlement_times,
                                    muni_to_settlements[muni_id], city_id)
            IN  IF Len(times) = Len(muni_to_settlements[muni_id])
                THEN RMinSeq(times) ELSE None]]

aggregate_to_municipalities(settlement_times, muni_to_settlements) ==
    [muni_id \in DOMAIN muni_to_settlements |->
        [city_id \in CitySet |->
            LET times == ValidTimes(settlement_times,
                                    muni_to_settlements[muni_id], city_id)
            IN  IF times # << >> THEN RMinSeq(times) ELSE None]]

MaxMembers == 3
MemberIds == <<"p1", "p2", "p3", "p4", "p5">>

(* a point's entry in the times file: none, or a duration or null per city *)
MemberTimes ==
    {NoneRec} \cup
    {[c \in CitySet |-> IF c = CITIES[1] THEN v ELSE u] :
        v \in {None, Sec(300), Sec(450)}, u \in {None, Sec(600)}}

(* the first k points belong to m1, the others to m2 *)
MemberMapping(n, k) ==
    IF k = n THEN ("m1" :> [j \in 1..n |-> MemberIds[j]])
    ELSE ("m1" :> [j \in 1..k |-> MemberIds[j]])
         @@ ("m2" :> [j \in 1..(n - k) |-> MemberIds[k + j]])

AggregateArgs ==
    UNION {
        {[settlement_times |->
              [p \in {MemberIds[j] : j \in {x \in 1..n : e[x] # NoneRec}} |->
                  e[CHOOSE j \in 1..n : MemberIds[j] = p]],
          muni_to_settlements |-> MemberMapping(n, k)] :
            e \in [1..n -> MemberTimes], k \in 1..n} : n \in 1..MaxMembers}

InitAggregate ==
    /\ InitCall("aggregate_call")
    /\ call_args \in AggregateArgs

AggregateCall ==
    /\ pc = "aggregate_call"
    /\ Return("aggregate_return",
              aggregate_to_municipalities(call_args.settlement_times,
                                          call_args.muni_to_settlements))

NextAggregate == AggregateCall

SpecAggregate == InitAggregate /\ [][NextAggregate]_vars

(* the non-null durations to a city over the members of a municipality *)
MemberValues(m, c) ==
    {v \in {Get(GetOr(call_args.settlement_times, p, EmptyDict), c) :
                p \in {call_args.muni_to_settlements[m][k] :
                           k \in DOMAIN call_args.muni_to_settlements[m]}} :
        v # None}

(* C14: the aggregate time of a municipality to a city is the minimum of the
   non-null times of its member points, and null exactly when no member has
   a non-null time. *)
C14_UpwardAggregation ==
    pc = "aggregate_return" =>
        /\ DOMAIN call_result = DOMAIN call_args.muni_to_settlements
        /\ \A m \in DOMAIN call_result : \A c \in CitySet :
              IF MemberValues(m, c) = {}
              THEN call_result[m][c] = None
              ELSE /\ call_result[m][c] \in MemberValues(m, c)
                   /\ \A v \in MemberValues(m, c) : RLe(call_result[m][c], v)

(* member times 300, 450 and null give 300 *)
C14_Witness ==
    /\ pc = "aggregate_return"
    /\ \E m \in DOMAIN call_result :
          LET ids == call_args.muni_to_settlements[m]
              t(k) == Get(GetOr(call_args.settlement_times, ids[k], EmptyDict),
                          CITIES[1])
          IN  /\ Len(ids) = 3
              /\ t(1) = Sec(300) /\ t(2) = Sec(450) /\ t(3) = None
              /\ call_result[m][CITIES[1]] = Sec(300)

(***************************************************************************)
(* 04_merge_prices.py, main, lines 17-57: prices_neho.json and             *)
(* prices_homegate.json are merged into prices.json.                       *)
(***************************************************************************)
SlugKeys == {"_slug_zuerich"}
startswith_slug(k) == k \in SlugKeys

HasPrice(v) == Truthy(Get(v, "chf_per_m2"))

(* a filter that keeps every record whose price is not null, a zero price
   included *)
NehoFilterNotNull(neho_raw) ==
    [k \in {x \in DOMAIN neho_raw :
                ~startswith_slug(x) /\ Get(neho_raw[x], "chf_per_m2") # None} |->
        neho_raw[k]]

NehoFilter(neho_raw) ==
    [k \in {x \in DOMAIN neho_raw :
                ~startswith_slug(x) /\ HasPrice(neho_raw[x])} |-> neho_raw[k]]

HomegateFilter(homegate_raw) ==
    [k \in {x \in DOMAIN homegate_raw : HasPrice(homegate_raw[x])} |->
        homegate_raw[k]]

(* entry = dict(n) with the two homegate fields added *)
BothEntry(n, h) ==
    [f \in DOMAIN n \cup {"homegate_chf_per_m2", "homegate_n_listings"} |->
        IF f = "homegate_chf_per_m2" THEN h.chf_per_m2
        ELSE IF f = "homegate_n_listings" THEN GetOr(h, "n_listings", 0)
        ELSE n[f]]

MergeHomegateFirst(all_ids, neho_raw, homegate_raw) ==
    LET neho == NehoFilter(neho_raw)
        homegate == HomegateFilter(homegate_raw)
    IN  [mid \in {x \in all_ids : x \in DOMAIN neho \/ x \in DOMAIN homegate} |->
            IF mid \in DOMAIN homegate THEN homegate[mid] ELSE neho[mid]]

merge_prices(all_ids, neho_raw, homegate_raw) ==
    LET neho == NehoFilter(neho_raw)
        homegate == HomegateFilter(homegate_raw)
    IN  [mid \in {x \in all_ids : x \in DOMAIN neho \/ x \in DOMAIN homegate} |->
            IF mid \in DOMAIN neho /\ mid \in DOMAIN homegate
            THEN BothEntry(neho[mid], homegate[mid])
            ELSE IF mid \in DOMAIN neho THEN neho[mid]
            ELSE homegate[mid]]

(* the price files: records as the fetchers write them, for municipalities
   of the catalog, for one outside it and, in the Neho file, under a slug *)
PriceCatalogIds == {"m1", "m2"}
NehoRecords ==
    {[chf_per_m2 |-> v, type |-> "neho"] : v \in {None, Chf(0), Chf(8000)}}
HomegateRecords ==
    {[chf_per_m2 |-> v, n_listings |-> 12, type |-> "homegate"] :
        v \in {None, Chf(7500), Chf(9000)}}

PriceFiles(keys, records) ==
    UNION {[present -> records] : present \in SUBSET keys}

MergeArgs ==
    {[all_ids |-> PriceCatalogIds, neho_raw |-> n, homegate_raw |-> h] :
        n \in PriceFiles(PriceCatalogIds \cup {OrphanMuni} \cup SlugKeys, NehoRecords),
        h \in PriceFiles(PriceCatalogIds \cup {OrphanMuni}, HomegateRecords)}

InitMerge ==
    /\ InitCall("merge_call")
    /\ call_args \in MergeArgs

MergeCall ==
    /\ pc = "merge_call"
    /\ Return("merge_return",
              merge_prices(call_args.all_ids, call_args.neho_raw,
                           call_args.homegate_raw))

NextMerge == MergeCall

SpecMerge == InitMerge /\ [][NextMerge]_vars

Supplies(file, m) == m \in DOMAIN file /\ HasPrice(file[m])

(* C15: for a municipality for which Neho and Homegate both supply a
   chf_per_m2, the merged record has Neho's chf_per_m2, keeps Homegate's as
   homegate_chf_per_m2 and carries the type of the source that won. *)
C15_MergePriority ==
    pc = "merge_return" =>
        \A m \in call_args.all_ids :
            Supplies(call_args.neho_raw, m) /\ Supplies(call_args.homegate_raw, m) =>
                /\ m \in DOMAIN call_result
                /\ call_result[m].chf_per_m2 = call_args.neho_raw[m].chf_per_m2
                /\ "homegate_chf_per_m2" \in DOMAIN call_result[m]
                /\ call_result[m].homegate_chf_per_m2 =
                       call_args.homegate_raw[m].chf_per_m2
                /\ call_result[m].type = "neho"

C15_Witness ==
    /\ pc = "merge_return"
    /\ Supplies(call_args.neho_raw, "m1")
    /\ Supplies(call_args.homegate_raw, "m1")
    /\ call_args.homegate_raw["m1"].chf_per_m2 = Chf(7500)
    /\ call_result["m1"].chf_per_m2 = Chf(8000)
    /\ call_result["m1"].homegate_chf_per_m2 = Chf(7500)

(***************************************************************************)
(* 04_fetch_taxes.py, parse_excel(xlsx_path), lines 32-69.  A row is the   *)
(* cells the loop reads: the commune number (column 2), the canton         *)
(* (column 1), the name (column 3) and the two multipliers (columns 4, 5). *)
(***************************************************************************)
(* round(x, 2): the nearest multiple of 1/100, ties to the even one *)
Round2(x) ==
    LET m == 100 * x[1]
        f == m \div x[2]
        r == m - f * x[2]
        k == IF 2 * r < x[2] THEN f
             ELSE IF 2 * r > x[2] THEN f + 1
             ELSE IF f % 2 = 0 THEN f ELSE f + 1
    IN  Rat(k, 100)

(* int(bfs_nr) and str(bfs_nr) on the commune numbers of the rows *)
IntOfText == ("261" :> 261) @@ ("351" :> 351)
StrOfInt ==
    (261 :> "261") @@ (351 :> "351") @@ (1061 :> "1061")
    @@ (8001 :> "8001") @@ (8002 :> "8002")

NoCell == [kind |-> "none"]
IntCell(n) == [kind |-> "int", value |-> n]
TextCell(t) == [kind |-> "text", value |-> t]

(* lines 40-46: rows without a valid commune number are skipped *)
HasBfsNr(row) ==
    \/ row.bfs_nr.kind = "int"
    \/ row.bfs_nr.kind = "text" /\ row.bfs_nr.value \in DOMAIN IntOfText

BfsNr(row) ==
    IF row.bfs_nr.kind = "int" THEN row.bfs_nr.value
    ELSE IntOfText[row.bfs_nr.value]

(* lines 54-58 *)
Total(canton_multiplier, commune_multiplier) ==
    IF canton_multiplier # None /\ commune_multiplier # None
    THEN Round2(RAdd(canton_multiplier, commune_multiplier))
    ELSE IF commune_multiplier # None THEN Round2(commune_multiplier)
    ELSE None

TaxRecord(row) ==
    [name |-> row.name,
     canton |-> row.canton,
     multiplier |-> Total(row.canton_multiplier, row.commune_multiplier),
     canton_rate |-> IF Truthy(row.canton_multiplier)
                     THEN Round2(row.canton_multiplier) ELSE None,
     commune_rate |-> IF Truthy(row.commune_multiplier)
                      THEN Round2(row.commune_multiplier) ELSE None]

RECURSIVE ParseRows(_, _)
ParseRows(rows, parsed) ==
    IF rows = << >> THEN parsed
    ELSE LET row == Head(rows)
         IN  ParseRows(Tail(rows),
                       IF HasBfsNr(row)
                       THEN (StrOfInt[BfsNr(row)] :> TaxRecord(row)) @@ parsed
                       ELSE parsed)

parse_excel(rows) == ParseRows(rows, EmptyDict)

MaxRows == 2

BfsCells == {NoCell, IntCell(261), TextCell("351"), TextCell("n/a")}
CantonCells == {None, Rat(98, 1), Rat(100, 1)}
CommuneCells == {None, Rat(119, 1), Rat(953, 8)}

Rows ==
    {[bfs_nr |-> b, canton |-> "ZH", name |-> "commune",
      canton_multiplier |-> x, commune_multiplier |-> y] :
        b \in BfsCells, x \in CantonCells, y \in CommuneCells}

Sheets == UNION {[1..n -> Rows] : n \in 0..MaxRows}

InitTaxes ==
    /\ InitCall("parse_call")
    /\ call_args \in Sheets

ParseCall ==
    /\ pc = "parse_call"
    /\ Return("parse_return", parse_excel(call_args))

NextTaxes == ParseCall

SpecTaxes == InitTaxes /\ [][NextTaxes]_vars

(* r is x rounded to two decimals: a multiple of 1/100 at most 1/200 from x *)
IsRounded2(r, x) ==
    /\ r # None
    /\ (100 * r[1]) % r[2] = 0
    /\ LET e == RSub(r, x) IN 200 * Abs(e[1]) <= e[2]

(* the last row of the sheet for a commune number is the one that is kept *)
KeptRows ==
    {k \in DOMAIN call_args :
        /\ HasBfsNr(call_args[k])
        /\ \A j \in DOMAIN call_args :
              j > k /\ HasBfsNr(call_args[j]) =>
                  BfsNr(call_args[j]) # BfsNr(call_args[k])}

(* C16: a commune's multiplier is the canton rate plus the commune rate when
   both are present, the one rate that is present when only one is, and
   null only when neither is present. *)
C16_TaxMultiplier ==
    pc = "parse_return" =>
        \A k \in KeptRows :
            LET row == call_args[k]
                m == call_result[StrOfInt[BfsNr(row)]].multiplier
                cn == row.canton_multiplier
                cm == row.commune_multiplier
            IN  /\ cn # None /\ cm # None => IsRounded2(m, RAdd(cn, cm))
                /\ cn = None /\ cm # None => IsRounded2(m, cm)
                /\ cn # None /\ cm = None => IsRounded2(m, cn)
                /\ cn = None /\ cm = None => m = None

(***************************************************************************)
(* compute_comfort_time called on its own, lines 84-99: any duration, any  *)
(* of the three modes, the default comfort factors or given ones, inside   *)
(* and outside [0, 1].                                                     *)
(***************************************************************************)
ComfortSeconds == {None, Sec(0), Sec(600), Sec(607), Sec(3600)}
ComfortModes == {"driving_manual", "driving_av", "public_transport"}
ComfortFactors == {Rat(-1, 2), Zero, Rat(7, 10), Rat(1, 1), Rat(3, 2)}
ComfortConfigs ==
    {NoneRec} \cup
    {[av_factor |-> a, oev_sitting_factor |-> o] :
        a \in ComfortFactors, o \in ComfortFactors}

ComfortArgs ==
    {[raw_seconds |-> s, mode |-> m, comfort |-> c] :
        s \in ComfortSeconds, m \in ComfortModes, c \in ComfortConfigs}

InitComfort ==
    /\ InitCall("comfort_call")
    /\ call_args \in ComfortArgs

(* lines 88-89: comfort=None stands for the configured COMFORT *)
ComfortCall ==
    /\ pc = "comfort_call"
    /\ Return("comfort_return",
              compute_comfort_time(
                  call_args.raw_seconds, call_args.mode,
                  IF call_args.comfort = NoneRec THEN COMFORT
                  ELSE call_args.comfort))

NextComfort == ComfortCall

SpecComfort == InitComfort /\ [][NextComfort]_vars

(* the factor the spec names for the mode of the call *)
FactorOfCall ==
    LET c == IF call_args.comfort = NoneRec
             THEN [av_factor |-> <<AvFactorPct, 100>>,
                   oev_sitting_factor |-> <<OevSittingFactorPct, 100>>]
             ELSE call_args.comfort
    IN  CASE call_args.mode = "driving_manual" -> <<1, 1>>
          [] call_args.mode = "driving_av" -> c.av_factor
          [] call_args.mode = "public_transport" -> c.oev_sitting_factor

(* C18: compute_comfort_time returns null for a null duration and otherwise
   raw_seconds / 60 times the factor of the mode (1 for driving_manual,
   av_factor for driving_av, oev_sitting_factor for public_transport), with
   the factor applied as given, also outside [0, 1]:
   result = s * p / (60 * q) for the duration s and the factor p / q. *)
C18_ComfortTime ==
    pc = "comfort_return" =>
        IF call_args.raw_seconds = None THEN call_result = None
        ELSE /\ call_result # None
             /\ call_result[1] * 60 * FactorOfCall[2]
                    = call_args.raw_seconds[1] * FactorOfCall[1] * call_result[2]

(* a factor above 1 lengthens the time and a negative one makes it negative *)
C18_Witness ==
    /\ pc = "comfort_return"
    /\ call_args.raw_seconds = Sec(600)
    /\ \/ /\ call_args.mode = "driving_av"
          /\ call_args.comfort # NoneRec
          /\ call_args.comfort.av_factor = Rat(3, 2)
          /\ call_result = Rat(15, 1)
       \/ /\ call_args.mode = "public_transport"
          /\ call_args.comfort # NoneRec
          /\ call_args.comfort.oev_sitting_factor = Rat(-1, 2)
          /\ call_result = Rat(-5, 1)

(***************************************************************************)
(* 01b_fetch_plz_points.py, fetch_plz_points, lines 60-110: the fetched    *)
(* records are folded into the two membership maps, whose sets are then    *)
(* stored as sorted lists.                                                 *)
(***************************************************************************)
(* lines 61-66; a field is a list, a single value, or None / "" *)
NoField == [kind |-> "none"]
OneField(v) == [kind |-> "scalar", value |-> v]
ListField(l) == [kind |-> "list", items |-> l]

as_list(val) ==
    IF val.kind = "list" THEN val.items
    ELSE IF val.kind = "none" THEN << >>
    ELSE <<val.value>>

(* lines 76-85: records without coordinates, postal code or municipality
   are skipped *)
IsUsable(rec) ==
    rec.geo /\ as_list(rec.plz_code) # << >> /\ as_list(rec.gem_code) # << >>

Elements(seq) == {seq[k] : k \in DOMAIN seq}

(* lines 98-106, one record: set.add on both maps *)
AddRecord(maps, rec) ==
    LET plz == StrOfInt[as_list(rec.plz_code)[1]]
        gcs == {StrOfInt[gc] : gc \in Elements(as_list(rec.gem_code))}
        pm == maps.plz_muni_map
        mp == maps.muni_plz_map
    IN  [plz_muni_map |->
             [k \in DOMAIN pm \cup {plz} |->
                 IF k = plz THEN GetOr(pm, k, {}) \cup gcs ELSE pm[k]],
         muni_plz_map |->
             [k \in DOMAIN mp \cup gcs |->
                 IF k \in gcs THEN GetOr(mp, k, {}) \cup {plz} ELSE mp[k]]]

RECURSIVE CollectRecords(_, _)
CollectRecords(all_records, maps) ==
    IF all_records = << >> THEN maps
    ELSE CollectRecords(Tail(all_records),
                        IF IsUsable(Head(all_records))
                        THEN AddRecord(maps, Head(all_records)) ELSE maps)

(* the order of Python strings on the identifiers of the records *)
LexRank ==
    ("1061" :> 1) @@ ("261" :> 2) @@ ("351" :> 3) @@ ("8001" :> 4)
    @@ ("8002" :> 5)

(* faulty variant: list(v), the set in the order it is iterated *)
listed(iterated) == iterated

(* sorted(v), on the set as it happens to be iterated *)
RECURSIVE sorted(_)
sorted(iterated) ==
    IF iterated = << >> THEN << >>
    ELSE LET x == Head(iterated)
             rest == sorted(Tail(iterated))
             Before(y) == LexRank[y] < LexRank[x]
             NotBefore(y) == ~Before(y)
         IN  SelectSeq(rest, Before) \o <<x>> \o SelectSeq(rest, NotBefore)

(* the orders in which a set may be iterated *)
Iterations(S) ==
    {q \in [1..Cardinality(S) -> S] : \A a, b \in DOMAIN q : a # b => q[a] # q[b]}

IterationsOfAll(sets) ==
    {it \in [DOMAIN sets -> UNION {Iterations(sets[k]) : k \in DOMAIN sets}] :
        \A k \in DOMAIN sets : it[k] \in Iterations(sets[k])}

MaxRecords == 3

PlzFields == {OneField(8001), ListField(<<8002>>), ListField(<<8001, 8002>>)}
GemFields ==
    {NoField, OneField(261), ListField(<<351, 261>>), ListField(<<1061, 261>>)}

PlzRecords ==
    {[plz_code |-> p, gem_code |-> g, geo |-> TRUE] :
        p \in PlzFields, g \in GemFields}
    \cup {[plz_code |-> OneField(8001), gem_code |-> OneField(351), geo |-> FALSE]}

PlzFetches == UNION {[1..n -> PlzRecords] : n \in 0..MaxRecords}

InitPlz ==
    /\ InitCall("plz_call")
    /\ call_args \in PlzFetches

(* lines 68-110: the fold, then lines 108-110 with each set iterated in some
   order *)
PlzCall ==
    /\ pc = "plz_call"
    /\ LET maps == CollectRecords(call_args,
                       [plz_muni_map |-> EmptyDict, muni_plz_map |-> EmptyDict])
       IN  \E pit \in IterationsOfAll(maps.plz_muni_map) :
           \E mit \in IterationsOfAll(maps.muni_plz_map) :
               Return("plz_return",
                      [plz_muni_map |->
                           [k \in DOMAIN maps.plz_muni_map |-> sorted(pit[k])],
                       muni_plz_map |->
                           [k \in DOMAIN maps.muni_plz_map |-> sorted(mit[k])]])

NextPlz == PlzCall

SpecPlz == InitPlz /\ [][NextPlz]_vars

(* the municipalities of a postal point, whatever the order of the records *)
UsableRecords == {k \in DOMAIN call_args : IsUsable(call_args[k])}
PlzOfRecord(k) == StrOfInt[as_list(call_args[k].plz_code)[1]]
MunisOfRecord(k) ==
    {StrOfInt[gc] : gc \in Elements(as_list(call_args[k].gem_code))}
MunisOfPlz(plz) ==
    UNION {MunisOfRecord(k) : k \in {j \in UsableRecords : PlzOfRecord(j) = plz}}

(* C19: the stored membership list of every postal point holds exactly the
   point's municipalities, in strictly increasing order (sorted and without
   duplicates); the list, and so its first element, is determined by the
   set of fetched records alone, not by their order of arrival or by the
   order in which a set is iterated. *)
C19_PrimaryMunicipality ==
    pc = "plz_return" =>
        /\ DOMAIN call_result.plz_muni_map = {PlzOfRecord(k) : k \in UsableRecords}
        /\ \A plz \in DOMAIN call_result.plz_muni_map :
              LET l == call_result.plz_muni_map[plz]
              IN  /\ Elements(l) = MunisOfPlz(plz)
                  /\ \A a, b \in DOMAIN l : a < b => LexRank[l[a]] < LexRank[l[b]]
                  /\ \A m \in MunisOfPlz(plz) : LexRank[l[1]] <= LexRank[m]

(* 351 arrives before 261 and 1061, and the stored list starts with 1061 *)
C19_Witness ==
    /\ pc = "plz_return"
    /\ Len(call_args) = 2
    /\ call_args[1] = [plz_code |-> OneField(8001),
                       gem_code |-> ListField(<<351, 261>>), geo |-> TRUE]
    /\ call_args[2] = [plz_code |-> OneField(8001),
                       gem_code |-> ListField(<<1061, 261>>), geo |-> TRUE]
    /\ call_result.plz_muni_map["8001"] = <<"1061", "261", "351">>

(***************************************************************************)
(* Two runs of compute_scores side by side: the run over all settlements,  *)
(* step by step, and then a run over some of them only (the settlements    *)
(* at the positions call_args, in input order), with the same catalogs.    *)
(***************************************************************************)
MaxRunPoints == 3

TwoRunProfile(d, t, p) ==
    [drive |-> AllCitiesAt(d), pt |-> AllCitiesAt(t), price |-> p]

(* gains 3, 0, 9 and null; status quo 10, 14, 30 and 21 minutes *)
TwoRunProfiles ==
    {TwoRunProfile(Sec(600), Sec(900), [chf_per_m2 |-> Chf(10000)]),
     TwoRunProfile(Sec(1200), Sec(1200), [chf_per_m2 |-> Chf(8000)]),
     TwoRunProfile(Sec(1800), Sec(3600), [chf_per_m2 |-> Chf(6000)]),
     TwoRunProfile(None, Sec(1800), NoneRec)}

TwoRunRuns == UNION {[1..n -> TwoRunProfiles] : n \in 2..MaxRunPoints}

(* the positions kept in the second run, in input order *)
KeptPositions(n) ==
    {q \in UNION {[1..k -> 1..n] : k \in 0..n} :
        \A a, b \in DOMAIN q : a < b => q[a] < q[b]}

InitTwoRuns ==
    /\ \E run \in TwoRunRuns :
          /\ InitRun(run)
          /\ call_args \in KeptPositions(Len(run))
    /\ pc = "features"
    /\ InitLocals
    /\ nv_values = << >>
    /\ nv_invert = FALSE
    /\ nv_result = << >>
    /\ call_result = NoneRec

(* lines 179-245 and 253 on the kept settlements *)
SecondRun ==
    /\ pc = "done"
    /\ LET kept == [j \in 1..Len(call_args) |-> settlements[call_args[j]]]
           fs == BuildFeatureList(kept)
           rg == RawGainsOf(fs)
           sqs == StatusQuosOf(fs)
           ra == RawAttractivenessOf(fs, sqs)
       IN  Return("compared",
                  [features |-> fs,
                   gains |-> GainsOf(fs),
                   raw_gains |-> rg,
                   norm_gains |-> normalize_values(rg, FALSE),
                   raw_status_quo |-> sqs,
                   raw_attractiveness |-> ra,
                   norm_attract |-> normalize_values(ra, FALSE)])

NextTwoRuns == Next \/ SecondRun

SpecTwoRuns == InitTwoRuns /\ [][NextTwoRuns]_vars

(* the non-null values of a list, and whether two lists have the same
   smallest and the same largest non-null value (or none at all) *)
ValuesOf(list) == {list[k] : k \in {j \in DOMAIN list : list[j] # None}}
IsLeast(v, S) == v \in S /\ \A x \in S : RLe(v, x)
IsGreatest(v, S) == v \in S /\ \A x \in S : RLe(x, v)
SameRange(l1, l2) ==
    LET S1 == ValuesOf(l1)
        S2 == ValuesOf(l2)
    IN  /\ S1 = {} <=> S2 = {}
        /\ \A v \in S1 \cup S2 :
              /\ IsLeast(v, S1) <=> IsLeast(v, S2)
              /\ IsGreatest(v, S1) <=> IsGreatest(v, S2)

(* C20: a point has the same per-city gains, scalar gain, status-quo
   accessibility and raw attractiveness in the run over all points and in a
   run over some of them; and whenever the two runs have the same smallest
   and largest non-null raw value, it has the same normalized sub-score. *)
C20_TwoPhase ==
    pc = "compared" =>
        \A j \in DOMAIN call_args :
            LET i == call_args[j]
            IN  /\ call_result.gains[j] = gains[i]
                /\ call_result.raw_gains[j] = raw_gains[i]
                /\ call_result.raw_status_quo[j] = raw_status_quo[i]
                /\ call_result.raw_attractiveness[j] = raw_attractiveness[i]
                /\ SameRange(raw_gains, call_result.raw_gains) =>
                       call_result.norm_gains[j] = norm_gains[i]
                /\ SameRange(raw_attractiveness, call_result.raw_attractiveness) =>
                       call_result.norm_attract[j] = norm_attract[i]

(* three points with different raw values, the middle one left out: the
   others keep their raw values and their normalized sub-scores *)
C20_Witness ==
    /\ pc = "compared"
    /\ Len(settlements) = 3
    /\ call_args = <<1, 3>>
    /\ raw_gains[1] # None /\ raw_gains[2] # None /\ raw_gains[3] # None
    /\ RLt(raw_gains[1], raw_gains[2]) /\ RLt(raw_gains[2], raw_gains[3])
    /\ SameRange(raw_gains, call_result.raw_gains)
    /\ call_result.raw_gains = <<raw_gains[1], raw_gains[3]>>
    /\ call_result.norm_gains = <<Zero, Hundred>>
    /\ norm_gains[1] = Zero /\ norm_gains[3] = Hundred

(* a point that set the largest raw value is left out: the raw values of
   the others stay, their normalized sub-scores change *)
C20_WitnessRangeChanged ==
    /\ pc = "compared"
    /\ Len(settlements) = 3
    /\ call_args = <<1, 2>>
    /\ ~SameRange(raw_gains, call_result.raw_gains)
    /\ call_result.raw_gains = <<raw_gains[1], raw_gains[2]>>
    /\ call_result.norm_gains[2] # norm_gains[2]

(***************************************************************************)
(* 06_generate_demo.py: normalize_values, lines 46-61, and the second pass *)
(* of main, lines 172-219, over the raw values of the first pass.  The     *)
(* first pass gives every municipality a gain (its travel times are        *)
(* synthetic) and an attractiveness only when it has a price.              *)
(***************************************************************************)
(* lines 182-192 and 216-219 for one municipality *)
DemoScores(norm_gain, norm_attr, weights) ==
    LET score_access == IF norm_gain # None THEN norm_gain ELSE Zero
        score_attract == IF norm_attr # None THEN norm_attr ELSE <<50, 1>>
        total_w == RAdd(weights.accessibility_gain,
                        weights.inherent_attractiveness)
        total == IF RLt(Zero, total_w)
                 THEN RDiv(RAdd(RMul(score_access, weights.accessibility_gain),
                                RMul(score_attract,
                                     weights.inherent_attractiveness)),
                           total_w)
                 ELSE Zero
    IN  [score_accessibility |-> Round1(score_access),
         score_attractiveness |-> Round1(score_attract),
         autonomy_score |-> Round1(total)]

generate_demo(all_gains, all_attractiveness, weights) ==
    LET norm_g == demo_normalize_values(all_gains, FALSE)
        norm_a == demo_normalize_values(all_attractiveness, FALSE)
    IN  [i \in 1..Len(all_gains) |-> DemoScores(norm_g[i], norm_a[i], weights)]

MaxDemo == 3

DemoGains == {Zero, Rat(3, 1), Rat(9, 1)}
DemoAttractiveness == {None, Rat(200, 1), Rat(1000, 1)}
DemoMunicipalities ==
    {[avg_gain |-> g, inherent_attract |-> a] :
        g \in DemoGains, a \in DemoAttractiveness}

DemoArgs ==
    {[raw_data |-> r, w |-> weights] :
        r \in UNION {[1..n -> DemoMunicipalities] : n \in 1..MaxDemo},
        weights \in WeightConfigs}

InitDemo ==
    /\ InitCall("demo_call")
    /\ call_args \in DemoArgs

DemoCall ==
    /\ pc = "demo_call"
    /\ LET r == call_args.raw_data
       IN  Return("demo_return",
                  generate_demo([i \in 1..Len(r) |-> r[i].avg_gain],
                                [i \in 1..Len(r) |-> r[i].inherent_attract],
                                call_args.w))

NextDemo == DemoCall

SpecDemo == InitDemo /\ [][NextDemo]_vars

(* what the scoring engine emits for the same raw values and weights *)
EngineSubScores ==
    LET r == call_args.raw_data
    IN  [accessibility_gain |->
             normalize_values([i \in 1..Len(r) |-> r[i].avg_gain], FALSE),
         inherent_attractiveness |->
             normalize_values([i \in 1..Len(r) |-> r[i].inherent_attract], FALSE)]

EngineScore(i) ==
    LET score == CombinedScore(
                     [accessibility_gain |-> EngineSubScores.accessibility_gain[i],
                      inherent_attractiveness |->
                          EngineSubScores.inherent_attractiveness[i]],
                     call_args.w)
    IN  IF score # None THEN Round1(score) ELSE None

(* C21: with weights of positive sum, the demo generator emits for every
   municipality the sub-scores and the autonomy_score that the scoring
   engine emits for the same raw values: a null sub-score stays null and
   the score is then the other sub-score. *)
C21_DemoSamePolicy ==
    pc = "demo_return" /\ RLt(Zero, call_args.w.accessibility_gain)
                       /\ RLt(Zero, call_args.w.inherent_attractiveness) =>
        \A i \in DOMAIN call_result :
            /\ call_result[i].score_accessibility =
                   EngineSubScores.accessibility_gain[i]
            /\ call_result[i].score_attractiveness =
                   EngineSubScores.inherent_attractiveness[i]
            /\ call_result[i].autonomy_score = EngineScore(i)

(***************************************************************************)
(* 02b_fetch_travel_times_plz.py, main, lines 271-353: the stage is run    *)
(* with --aggregate min or avg on fetched postal-code times; both modes    *)
(* are aggregated by the calls of lines 334 and 352.                       *)
(***************************************************************************)
AggregateChoices == {"min", "avg"}

PlzStageArgs ==
    {[aggregate |-> a, plz_times |-> x.settlement_times,
      muni_to_plz |-> x.muni_to_settlements] :
        a \in AggregateChoices, x \in AggregateArgs}

InitPlzStage ==
    /\ InitCall("stage_call")
    /\ call_args \in PlzStageArgs

(* args.aggregate is parsed (lines 271-276) and not read again *)
PlzStageCall ==
    /\ pc = "stage_call"
    /\ Return("stage_return",
              aggregate_to_municipalities(call_args.plz_times,
                                          call_args.muni_to_plz))

NextPlzStage == PlzStageCall

SpecPlzStage == InitPlzStage /\ [][NextPlzStage]_vars

(* the non-null times to city c of the postal-code points of m, as a list *)
PlzTimesOf(m, c) ==
    LET codes == call_args.muni_to_plz[m]
        t(k) == Get(GetOr(call_args.plz_times, codes[k], EmptyDict), c)
    IN  SelectSeq([k \in 1..Len(codes) |-> t(k)], NotNone)

(* C22: with --aggregate min a municipality's time per city is the minimum
   of the non-null times of its postal-code points, with --aggregate avg it
   is their average; it is null when there is none. *)
C22_AggregateOption ==
    pc = "stage_return" =>
        \A m \in DOMAIN call_result : \A c \in CitySet :
            LET times == PlzTimesOf(m, c)
            IN  IF times = << >> THEN call_result[m][c] = None
                ELSE IF call_args.aggregate = "avg"
                     THEN call_result[m][c] = Mean(times)
                     ELSE call_result[m][c] = RMinSeq(times)

(***************************************************************************)
(* Properties of the scored records of compute_scores, over the runs of    *)
(* Spec.                                                                   *)
(***************************************************************************)
CityIndex(c) == CHOOSE k \in 1..Len(CITIES) : CITIES[k] = c

(* C23: best_city is null exactly when every per-city gain is null;
   otherwise it is a city with a non-null gain that no city exceeds, and
   every city before it in CITIES has a null or a strictly smaller gain. *)
C23_BestCity ==
    pc = "done" =>
        \A i \in 1..Len(scored) :
            LET g == gains[i]
                b == scored[i].best_city
            IN  /\ b = NoneStr <=> \A c \in CitySet : g[c] = None
                /\ b # NoneStr =>
                      /\ b \in CitySet
                      /\ g[b] # None
                      /\ \A c \in CitySet : g[c] # None => RLe(g[c], g[b])
                      /\ \A c \in CitySet :
                            CityIndex(c) < CityIndex(b) =>
                                g[c] = None \/ RLt(g[c], g[b])

(* two cities tie for the highest gain, which is negative: the first wins *)
C23_Witness ==
    /\ pc = "done"
    /\ \E i \in 1..Len(scored) :
          /\ gains[i][CITIES[1]] # None
          /\ gains[i][CITIES[1]] = gains[i][CITIES[2]]
          /\ RLt(gains[i][CITIES[1]], Zero)
          /\ scored[i].best_city = CITIES[1]

(* the second city has the strictly higher gain *)
C23_WitnessSecondCity ==
    /\ pc = "done"
    /\ \E i \in 1..Len(scored) :
          /\ gains[i][CITIES[1]] # None /\ gains[i][CITIES[2]] # None
          /\ RLt(gains[i][CITIES[1]], gains[i][CITIES[2]])
          /\ scored[i].best_city = CITIES[2]

InRange(v) == v = None \/ (RLe(Zero, v) /\ RLe(v, Hundred))

SubScoresOf(p) ==
    {v \in {p.score_accessibility, p.score_attractiveness} : v # None}

(* C24: with non-negative weights every non-null score_accessibility,
   score_attractiveness and autonomy_score lies in [0, 100], and a non-null
   autonomy_score lies between the smallest and the largest non-null
   sub-score of its point. *)
C24_ScoreRange ==
    pc = "done" /\ RLe(Zero, w.accessibility_gain)
                /\ RLe(Zero, w.inherent_attractiveness) =>
        \A i \in 1..Len(scored) :
            /\ InRange(scored[i].score_accessibility)
            /\ InRange(scored[i].score_attractiveness)
            /\ InRange(scored[i].autonomy_score)
            /\ scored[i].autonomy_score # None =>
                  /\ \E v \in SubScoresOf(scored[i]) :
                         RLe(v, scored[i].autonomy_score)
                  /\ \E v \in SubScoresOf(scored[i]) :
                         RLe(scored[i].autonomy_score, v)

(* both sub-scores present and different, unequal positive weights: the
   score lies strictly between them; another point reaches 100 *)
C24_Witness ==
    /\ pc = "done"
    /\ w.accessibility_gain # w.inherent_attractiveness
    /\ RLt(Zero, w.accessibility_gain)
    /\ \E i \in 1..Len(scored) :
          /\ scored[i].score_accessibility # None
          /\ scored[i].score_attractiveness # None
          /\ scored[i].autonomy_score # None
          /\ RLt(scored[i].score_accessibility, scored[i].autonomy_score)
          /\ RLt(scored[i].autonomy_score, scored[i].score_attractiveness)
    /\ \E i \in 1..Len(scored) : scored[i].score_attractiveness = Hundred

(***************************************************************************)
(* Properties of the two normalize_values, over the calls of               *)
(* SpecNormalize.                                                          *)
(***************************************************************************)
IsMonotone(values, result, invert) ==
    /\ Len(result) = Len(values)
    /\ \A i, j \in DOMAIN values :
          values[i] # None /\ values[j] # None =>
              /\ result[i] # None /\ result[j] # None
              /\ RLe(values[i], values[j]) =>
                    IF invert THEN RLe(result[j], result[i])
                    ELSE RLe(result[i], result[j])
              /\ values[i] = values[j] => result[i] = result[j]

(* C25: both normalize_values preserve the order of the non-null entries
   (reverse it when invert is requested) and give equal raw values equal
   normalized values. *)
C25_OrderPreserving ==
    pc = "normalize_return" =>
        /\ IsMonotone(nv_values, nv_result, nv_invert)
        /\ IsMonotone(nv_values, call_result, nv_invert)

(* three different values, inverted: the largest gets 0, the smallest 100 *)
C25_Witness ==
    /\ pc = "normalize_return"
    /\ nv_invert
    /\ Len(nv_values) >= 3
    /\ nv_values[1] # None /\ nv_values[2] # None /\ nv_values[3] # None
    /\ RLt(nv_values[1], nv_values[2]) /\ RLt(nv_values[2], nv_values[3])
    /\ RLt(nv_result[3], nv_result[2]) /\ RLt(nv_result[2], nv_result[1])
    /\ call_result = nv_result

(***************************************************************************)
(* 03b_retry_neho.py, 03b_retry_neho_stealth.py and                        *)
(* 03b_final_neho_sweep.py: main() loads municipalities.json, prices.json  *)
(* and prices_neho.json, visits one Neho page per slug of the              *)
(* municipalities that have no record in prices.json, and rewrites both    *)
(* price files at its checkpoints.  call_args holds the files as they are  *)
(* before the run, call_result the run's state: the shuffled URL list, the *)
(* number of URLs done, the two dicts in memory and the two files on disk. *)
(***************************************************************************)
RetryScripts == {"03b_retry_neho", "03b_retry_neho_stealth", "03b_final_neho_sweep"}

SAVE_EVERY(script) == IF script = "03b_retry_neho_stealth" THEN 10 ELSE 25

(* municipalities.json; two municipalities share the slug of their name *)
RetryMunicipalities ==
    <<[id |-> "m1", name |-> "Aarau"], [id |-> "m2", name |-> "Wil (SG)"],
      [id |-> "m3", name |-> "Wil (ZH)"], [id |-> "m4", name |-> "Bern"]>>

MaxRetryMunis == 3

RetryCatalog == SubSeq(RetryMunicipalities, 1, MaxRetryMunis)

(* normalize(name): lower case, the parenthesised part removed *)
normalize(name) ==
    CASE name = "Aarau" -> "aarau"
      [] name = "Wil (SG)" -> "wil"
      [] name = "Wil (ZH)" -> "wil"
      [] name = "Bern" -> "bern"

all_munis(munis) ==
    {munis[k].id : k \in DOMAIN munis}

missing_ids(munis, current_prices) ==
    all_munis(munis) \ DOMAIN current_prices

slug_to_mids(munis, current_prices) ==
    LET missing == {k \in DOMAIN munis :
                        munis[k].id \in
                            missing_ids(munis, current_prices)}
    IN  [slug \in {normalize(munis[k].name) : k \in missing} |->
            {munis[k].id :
                k \in {x \in missing : normalize(munis[x].name) = slug}}]

(* random.shuffle(urls): any order of the slugs *)
Shuffles(S) ==
    {seq \in [1..Cardinality(S) -> S] :
        \A i, j \in 1..Cardinality(S) : seq[i] = seq[j] => i = j}

WithoutSlugs(d) == [k \in {x \in DOMAIN d : ~startswith_slug(x)} |-> d[k]]

SetAll(d, keys, v) == [k \in DOMAIN d \cup keys |-> IF k \in keys THEN v ELSE d[k]]

(* the files before the run: prices_neho.json as the Neho fetcher left it,
   prices.json as 04_merge_prices.py built it from that file and the
   Homegate file *)
RetryNehoRecords ==
    {[chf_per_m2 |-> v, type |-> "neho"] : v \in {None, Chf(8000)}}
RetryHomegateRecords ==
    {[chf_per_m2 |-> Chf(7500), n_listings |-> 12, type |-> "homegate"]}

RetryArgs ==
    {[script |-> s, municipalities |-> RetryCatalog, neho_raw |-> n,
      prices |-> merge_prices(all_munis(RetryCatalog), n, h)] :
        s \in RetryScripts,
        n \in PriceFiles({"m1", "m2"} \cup SlugKeys, RetryNehoRecords),
        h \in PriceFiles({"m1", "m2"}, RetryHomegateRecords)}

InitRetry ==
    /\ InitCall("retry_call")
    /\ call_args \in RetryArgs

(* lines 105-133 of 03b_retry_neho.py: load, list the URLs, return when
   there is nothing to fetch *)
RetryLoad ==
    /\ pc = "retry_call"
    /\ LET slugs == DOMAIN slug_to_mids(call_args.municipalities, call_args.prices)
       IN  \E urls \in Shuffles(slugs) :
              Return(IF urls = << >> THEN "retry_done" ELSE "retry_loop",
                     [urls |-> urls, done |-> 0,
                      neho_raw |-> call_args.neho_raw,
                      current_prices |-> call_args.prices,
                      prices_neho_json |-> call_args.neho_raw,
                      prices_json |-> call_args.prices])

(* what one page can answer: the HTTP status (or an exception of goto), a
   Cloudflare challenge title, and what extract_prices_from_page returns:
   a Neho record or nothing (None, "no_data" in the final sweep) *)
PageStatuses == {"404", "403", "200", "other", "exception"}
FoundRecord == [chf_per_m2 |-> Chf(8200), type |-> "neho"]
PageData == {NoneRec, FoundRecord}

(* one iteration of the loop over urls, its checkpoint included *)
RetryPage ==
    /\ pc = "retry_loop"
    /\ \E status \in PageStatuses, challenge \in BOOLEAN, price_data \in PageData :
          LET s == call_result
              slug == s.urls[s.done + 1]
              mids == slug_to_mids(call_args.municipalities, call_args.prices)[slug]
              \* 03b_final_neho_sweep.py line 176: continue
              continues == /\ call_args.script = "03b_final_neho_sweep"
                           /\ status = "200" /\ challenge
              found == status = "200" /\ ~continues /\ price_data # NoneRec
              neho == IF found THEN SetAll(s.neho_raw, mids, price_data)
                      ELSE s.neho_raw
              current == IF found THEN SetAll(s.current_prices, mids, price_data)
                         ELSE s.current_prices
              done == s.done + 1
              saves == /\ ~continues
                       /\ \/ done % SAVE_EVERY(call_args.script) = 0
                          \/ done = Len(s.urls)
          IN  Return(IF done = Len(s.urls) THEN "retry_done" ELSE "retry_loop",
                     [urls |-> s.urls, done |-> done,
                      neho_raw |-> neho, current_prices |-> current,
                      prices_neho_json |-> IF saves THEN neho
                                           ELSE s.prices_neho_json,
                      prices_json |-> IF saves THEN WithoutSlugs(neho)
                                      ELSE s.prices_json])

NextRetry == RetryLoad \/ RetryPage

SpecRetry == InitRetry /\ [][NextRetry]_vars

(* C26: running a Neho retry script never removes a price: every
   municipality that has a record in prices.json before the run still has a
   record with the same chf_per_m2 in prices.json at every point of the
   run. *)
C26_NeverRemovesPrice ==
    pc \in {"retry_loop", "retry_done"} =>
        \A m \in DOMAIN call_args.prices :
            /\ m \in DOMAIN call_result.prices_json
            /\ call_result.prices_json[m].chf_per_m2 =
                  call_args.prices[m].chf_per_m2

FoundDuringRun == DOMAIN call_result.current_prices \ DOMAIN call_args.prices

(* C27: when the loop of the final sweep has finished, both price files
   hold every price found during the run. *)
C27_SweepPersists ==
    pc = "retry_done" /\ call_args.script = "03b_final_neho_sweep" =>
        \A m \in FoundDuringRun :
            /\ m \in DOMAIN call_result.prices_neho_json
            /\ call_result.prices_neho_json[m] = call_result.current_prices[m]
            /\ m \in DOMAIN call_result.prices_json
            /\ call_result.prices_json[m] = call_result.current_prices[m]

(***************************************************************************)
(* fetch_osrm_driving(points, base_url, batch_size) of                     *)
(* 02_fetch_travel_times.py (lines 175-215, keyed by m["id"]),             *)
(* 02b_fetch_travel_times_plz.py (lines 87-125, keyed by p["plz"]) and     *)
(* 02c_fetch_travel_times_settlements.py (lines 87-127, keyed by           *)
(* p["uuid"]): the same loop over batches in the three files.  call_args   *)
(* holds the point list, the batch size and what the OSRM server answers   *)
(* for each point; call_result holds batch_start, results and the batches  *)
(* requested so far with the outcome of each request.                      *)
(***************************************************************************)
OSRM_BATCH_SIZE == 90

(* round(val): to the nearest integer, ties to the even one *)
Round0(x) ==
    LET f == x[1] \div x[2]
        r == x[1] - f * x[2]
        k == IF 2 * r < x[2] THEN f
             ELSE IF 2 * r > x[2] THEN f + 1
             ELSE IF f % 2 = 0 THEN f ELSE f + 1
    IN  Rat(k, 1)

MaxOsrmPoints == 3

OsrmStages == {"02", "02b", "02c"}

OsrmIds(stage) ==
    IF stage = "02" THEN MuniIds ELSE IF stage = "02b" THEN MemberIds ELSE Uuids

(* one row of the durations table: no route to any city, a route to every
   city, a route to every city but the first *)
DurationRows ==
    {[c \in CitySet |-> None],
     [c \in CitySet |-> Rat(1201 * CityIndex(c), 2)],
     [c \in CitySet |-> IF CityIndex(c) = 1 THEN None
                        ELSE Rat(1201 * CityIndex(c), 2)]}

(* batch_size: OSRM_BATCH_SIZE on the public server, len(points) on a local
   one (lines 178-179); smaller sizes give several batches on short lists *)
BatchSizes(n) == {1, 2, n, OSRM_BATCH_SIZE}

OsrmArgs ==
    UNION {UNION {
        {[stage |-> stage, points |-> SubSeq(OsrmIds(stage), 1, n),
          batch_size |-> b, durations |-> d] :
            b \in BatchSizes(n),
            d \in [{OsrmIds(stage)[k] : k \in 1..n} -> DurationRows]} :
        n \in 1..MaxOsrmPoints} : stage \in OsrmStages}

InitOsrm ==
    /\ InitCall("osrm_call")
    /\ call_args \in OsrmArgs

(* lines 181-184: city_list, results = {}, n *)
OsrmCall ==
    /\ pc = "osrm_call"
    /\ Return("osrm_loop", [batch_start |-> 0, results |-> EmptyDict,
                            batches |-> << >>])

IdsOf(batch) == {batch[k] : k \in DOMAIN batch}

(* lines 197-199: every point of the batch gets None for every city *)
FailedEntries(batch) == [p \in IdsOf(batch) |-> [c \in CitySet |-> None]]

(* lines 204-209: durations[i][j] rounded, None kept *)
FetchedEntries(batch, durations) ==
    [p \in IdsOf(batch) |->
        [c \in CitySet |->
            IF durations[p][c] # None THEN Round0(durations[p][c]) ELSE None]]

Updated(results, entries) ==
    [p \in DOMAIN results \cup DOMAIN entries |->
        IF p \in DOMAIN entries THEN entries[p] ELSE results[p]]

(* the loop leaves a failed batch with continue, never with break *)
AfterBatchBreakOnError(next_start, n, fails) ==
    IF fails \/ next_start >= n THEN "osrm_return" ELSE "osrm_loop"

AfterBatch(next_start, n, fails) ==
    IF next_start >= n THEN "osrm_return" ELSE "osrm_loop"

(* one iteration of the loop over range(0, n, batch_size) *)
OsrmBatch ==
    /\ pc = "osrm_loop"
    /\ \E fails \in BOOLEAN :
          LET s == call_result
              n == Len(call_args.points)
              sum == s.batch_start + call_args.batch_size
              batch_end == IF sum < n THEN sum ELSE n
              batch == SubSeq(call_args.points, s.batch_start + 1, batch_end)
              entries == IF fails THEN FailedEntries(batch)
                         ELSE FetchedEntries(batch, call_args.durations)
          IN  Return(AfterBatch(sum, n, fails),
                     [batch_start |-> sum,
                      results |-> Updated(s.results, entries),
                      batches |-> Append(s.batches,
                                         [batch |-> batch, failed |-> fails])])

NextOsrm == OsrmCall \/ OsrmBatch

SpecOsrm == InitOsrm /\ [][NextOsrm]_vars

RECURSIVE Concatenated(_)
Concatenated(batches) ==
    IF batches = << >> THEN << >>
    ELSE Head(batches).batch \o Concatenated(Tail(batches))

(* C28: the result of fetch_osrm_driving has an entry for every input
   point, each with a key for every reference city; the batches requested
   are the input list cut in order; the points of a batch whose request
   failed have null for every city, and the points of every other batch,
   before or after a failed one, have the rounded durations the server
   answered. *)
C28_FailedBatchOnly ==
    pc = "osrm_return" =>
        LET results == call_result.results
            batches == call_result.batches
        IN  /\ DOMAIN results = IdsOf(call_args.points)
            /\ \A p \in DOMAIN results : DOMAIN results[p] = CitySet
            /\ Concatenated(batches) = call_args.points
            /\ \A k \in DOMAIN batches :
                  /\ batches[k].batch # << >>
                  /\ \A p \in IdsOf(batches[k].batch), c \in CitySet :
                        IF batches[k].failed THEN results[p][c] = None
                        ELSE results[p][c] =
                                IF call_args.durations[p][c] = None THEN None
                                ELSE Round0(call_args.durations[p][c])

(* three batches, the middle one failed: the points before and after it
   have their durations, the one in it has none *)
C28_Witness ==
    /\ pc = "osrm_return"
    /\ Len(call_result.batches) = 3
    /\ ~call_result.batches[1].failed
    /\ call_result.batches[2].failed
    /\ ~call_result.batches[3].failed
    /\ LET p1 == call_args.points[1]
           p2 == call_args.points[2]
           p3 == call_args.points[3]
       IN  /\ \A c \in CitySet : call_args.durations[p2][c] # None
           /\ \A c \in CitySet : call_result.results[p2][c] = None
           /\ \A c \in CitySet : call_result.results[p1][c] # None
           /\ \A c \in CitySet : call_result.results[p3][c] # None
           /\ call_result.results[p1][CITIES[1]] = Sec(600)

(***************************************************************************)
(* The key set of the merged price catalog, over the calls of SpecMerge.   *)
(***************************************************************************)
C29_MergedKeySet ==
    pc = "merge_return" =>
        /\ DOMAIN call_result \subseteq call_args.all_ids
        /\ \A m \in call_args.all_ids :
              m \in DOMAIN call_result <=>
                  \/ Supplies(call_args.neho_raw, m)
                  \/ Supplies(call_args.homegate_raw, m)
        /\ \A m \in DOMAIN call_result :
              /\ call_result[m].chf_per_m2 # None
              /\ call_result[m].chf_per_m2 # Zero
              /\ call_result[m].type = "homegate" <=>
                    ~Supplies(call_args.neho_raw, m)
              /\ ~Supplies(call_args.neho_raw, m) =>
                    call_result[m] = call_args.homegate_raw[m]

(* Neho has a zero price for m1, a null one for m2 and prices under a slug
   and for a municipality outside the catalog; Homegate has a price for m1
   only: the merged catalog is m1's Homegate record and nothing else *)
C29_Witness ==
    /\ pc = "merge_return"
    /\ DOMAIN call_args.neho_raw = {"m1", "m2", OrphanMuni, "_slug_zuerich"}
    /\ call_args.neho_raw["m1"].chf_per_m2 = Chf(0)
    /\ call_args.neho_raw["m2"].chf_per_m2 = None
    /\ Supplies(call_args.neho_raw, OrphanMuni)
    /\ Supplies(call_args.neho_raw, "_slug_zuerich")
    /\ Supplies(call_args.homegate_raw, "m1")
    /\ ~Supplies(call_args.homegate_raw, "m2")
    /\ Supplies(call_args.homegate_raw, OrphanMuni)
    /\ DOMAIN call_result = {"m1"}
    /\ call_result["m1"].type = "homegate"

(***************************************************************************)
(* 01c_fetch_settlement_points.py, build_mapping(settlements), lines       *)
(* 174-194, and the two maps of 01b_fetch_plz_points.py (PlzCall above).   *)
(* A settlement is its uuid and the municipality_id that _lookup_one left  *)
(* on it: absent when the lookup failed, else the municipality at the      *)
(* settlement's coordinates.                                               *)
(***************************************************************************)
EmptyMapping ==
    [settlement_to_municipality |-> EmptyDict,
     municipality_to_settlements |-> EmptyDict]

(* a loop that starts a municipality's list afresh at every settlement *)
AddSettlementAfresh(mapping, s) ==
    LET muni_id == s.municipality_id
        sid == s.uuid
        lists == mapping.municipality_to_settlements
    IN  IF ~IsTruthyId(muni_id) THEN mapping
        ELSE [settlement_to_municipality |->
                  [k \in DOMAIN mapping.settlement_to_municipality \cup {sid} |->
                      IF k = sid THEN muni_id
                      ELSE mapping.settlement_to_municipality[k]],
              municipality_to_settlements |->
                  [m \in DOMAIN lists \cup {muni_id} |->
                      IF m = muni_id THEN <<sid>> ELSE lists[m]]]

(* one iteration of the loop, lines 179-189 *)
AddSettlement(mapping, s) ==
    LET muni_id == s.municipality_id
        sid == s.uuid
        lists == mapping.municipality_to_settlements
    IN  IF ~IsTruthyId(muni_id) THEN mapping
        ELSE [settlement_to_municipality |->
                  [k \in DOMAIN mapping.settlement_to_municipality \cup {sid} |->
                      IF k = sid THEN muni_id
                      ELSE mapping.settlement_to_municipality[k]],
              municipality_to_settlements |->
                  [m \in DOMAIN lists \cup {muni_id} |->
                      IF m = muni_id
                      THEN Append(GetOr(lists, m, << >>), sid)
                      ELSE lists[m]]]

RECURSIVE BuildMappingFrom(_, _)
BuildMappingFrom(mapping, settlements_list) ==
    IF settlements_list = << >> THEN mapping
    ELSE BuildMappingFrom(AddSettlement(mapping, Head(settlements_list)),
                          Tail(settlements_list))

build_mapping(settlements_list) == BuildMappingFrom(EmptyMapping, settlements_list)

MaxMapRecords == 2
MaxMapSettlements == 3

(* the municipality at each settlement's coordinates *)
MuniAt == ("u1" :> "m1") @@ ("u2" :> "m1") @@ ("u3" :> "m2") @@ ("u4" :> "m3")

MapSettlements ==
    {[uuid |-> u, municipality_id |-> m] :
        u \in DOMAIN MuniAt, m \in {NoneStr, "", "m1", "m2", "m3"}}

(* the settlement list: one row per uuid in file order, with the
   municipality of its coordinates or none *)
MapSettlementLists ==
    UNION {{l \in [1..n -> MapSettlements] :
                \A k \in 1..n :
                    /\ l[k].uuid = Uuids[k]
                    /\ l[k].municipality_id \in {NoneStr, "", MuniAt[l[k].uuid]}} :
           n \in 0..MaxMapSettlements}

InitMappings ==
    /\ InitCall("plz_call")
    /\ call_args \in UNION {[1..n -> PlzRecords] : n \in 0..MaxMapRecords}

(* the settlement stage, run after the postal-code stage: its mapping is
   kept next to the two postal-code maps *)
BuildMappingCall ==
    /\ pc = "plz_return"
    /\ \E l \in MapSettlementLists :
          Return("mapping_return",
                 [plz_muni_map |-> call_result.plz_muni_map,
                  muni_plz_map |-> call_result.muni_plz_map,
                  settlements |-> l,
                  mapping |-> build_mapping(l)])

NextMappings == PlzCall \/ BuildMappingCall

SpecMappings == InitMappings /\ [][NextMappings]_vars

InList(x, list) == \E k \in DOMAIN list : list[k] = x

(* C30: the two maps of the postal-code stage are each other's converse,
   and so are the two maps of the settlement stage; every settlement with
   a municipality_id is in the list of exactly one municipality, its
   own. *)
C30_MappingsConsistent ==
    /\ pc \in {"plz_return", "mapping_return"} =>
          LET pm == call_result.plz_muni_map
              mp == call_result.muni_plz_map
          IN  /\ \A p \in DOMAIN pm : \A m \in DOMAIN mp :
                    InList(p, mp[m]) <=> InList(m, pm[p])
              /\ \A p \in DOMAIN pm : \A k \in DOMAIN pm[p] : pm[p][k] \in DOMAIN mp
              /\ \A m \in DOMAIN mp : \A k \in DOMAIN mp[m] : mp[m][k] \in DOMAIN pm
    /\ pc = "mapping_return" =>
          LET sm == call_result.mapping.settlement_to_municipality
              ms == call_result.mapping.municipality_to_settlements
              l == call_result.settlements
          IN  /\ \A m \in DOMAIN ms : \A k \in DOMAIN ms[m] : ms[m][k] \in DOMAIN sm
              /\ \A s \in DOMAIN sm : sm[s] \in DOMAIN ms
              /\ \A s \in DOMAIN sm : \A m \in DOMAIN ms :
                    sm[s] = m <=> InList(s, ms[m])
              /\ \A k \in DOMAIN l :
                    IsTruthyId(l[k].municipality_id) =>
                        /\ l[k].uuid \in DOMAIN sm
                        /\ sm[l[k].uuid] = l[k].municipality_id
                        /\ {m \in DOMAIN ms : InList(l[k].uuid, ms[m])} =
                               {l[k].municipality_id}

(* a postal code shared by two municipalities, and two settlements of one
   municipality next to one of another and one without a municipality *)
C30_Witness ==
    /\ pc = "mapping_return"
    /\ "8001" \in DOMAIN call_result.plz_muni_map
    /\ Len(call_result.plz_muni_map["8001"]) = 2
    /\ Len(call_result.settlements) = 3
    /\ call_result.mapping.municipality_to_settlements =
           ("m1" :> <<"u1", "u2">>)
    /\ call_result.mapping.settlement_to_municipality =
           ("u1" :> "m1") @@ ("u2" :> "m1")

====
